---------------------------- MODULE Spec2Model ----------------------------
(***************************************************************************)
(* Field extraction and batch consolidation of the XML -> XLSX converter.  *)
(*                                                                         *)
(* Python values are tagged pairs <<kind, payload>>:                       *)
(*   none  Python None (xmltodict's value of an empty element)             *)
(*   str   a text, as the sequence of its characters                       *)
(*   dict  an ordered map, as the sequence of its <<key, value>> entries   *)
(*   list  a sequence of values                                            *)
(*   num   a float, as <<mantissa, number of decimals>> (exact decimal)    *)
(*   date  a datetime, as <<year, month, day, hour, minute, second>>       *)
(* Keys of maps are TLA+ strings; a dotted path is the sequence of its     *)
(* segments (key_path.split('.')).                                         *)
(***************************************************************************)
EXTENDS Integers, Sequences, FiniteSets, TLC

VARIABLES
    pc,             \* position of the running call: "call" before, "done" after
    data,           \* _search_recursive / get_nested_value: the tree searched
    keys,           \* _search_recursive: the key names searched for
    context,        \* _search_recursive: the context key ("" when None)
    key_path,       \* get_nested_value: the path, split at the dots
    value,          \* safe_float: the value to convert
    result,         \* the value the call returned
    xml_dict,       \* _extract_fields_enhanced: the parsed document
    extracted_data, \* _extract_fields_enhanced: the record returned
    xml_files,      \* parse_multiple_xmls: the (filename, content) pairs
    idx,            \* parse_multiple_xmls: the pair the loop takes next
    all_data,       \* parse_multiple_xmls: the records collected
    df,             \* parse_multiple_xmls: the table returned; the table a transform is given
    again,          \* the value a second application of the call returned
    args,           \* the operation called and its arguments
    df_processed,   \* st.session_state.df_processed
    processing_complete \* st.session_state.processing_complete

vars == <<pc, data, keys, context, key_path, value, result, xml_dict, extracted_data,
          xml_files, idx, all_data, df, again, args, df_processed, processing_complete>>

-----------------------------------------------------------------------------
(* Python values *)

NoneV == <<"none", <<>>>>
Str(s) == <<"str", s>>
Dict(es) == <<"dict", es>>
List(xs) == <<"list", xs>>
Num(m, e) == <<"num", <<m, e>>>>
IsNone(x) == x[1] = "none"
IsStr(x) == x[1] = "str"
IsDict(x) == x[1] = "dict"
IsList(x) == x[1] = "list"
IsNum(x) == x[1] = "num"

Range(s) == {s[i] : i \in 1..Len(s)}

\* the variables of the calls a specification does not make
IdleSearch == data = NoneV /\ keys = <<>> /\ context = "" /\ key_path = <<>>
IdleFloat == value = NoneV
IdleExtract == xml_dict = NoneV /\ extracted_data = <<>>
IdleBatch == xml_files = <<>> /\ idx = 0 /\ all_data = <<>> /\ df = NoneV
IdleCoerce == again = NoneV
IdleTransform == args = <<>>
IdleSession == df_processed = NoneV /\ processing_complete = FALSE

\* the keys of a dict, in insertion order
DictKeys(d) == [i \in 1..Len(d[2]) |-> d[2][i][1]]

\* key in d
HasKey(d, key) == \E i \in 1..Len(d[2]) : d[2][i][1] = key

\* d.get(key): None when the key is missing
DictGet(d, key) ==
    IF HasKey(d, key)
    THEN d[2][CHOOSE i \in 1..Len(d[2]) : d[2][i][1] = key][2]
    ELSE NoneV

\* the texts used as leaves
EmptyText == <<>>
NoneText == <<"N", "o", "n", "e">>
noneText == <<"n", "o", "n", "e">>
NONEText == <<"N", "O", "N", "E">>

-----------------------------------------------------------------------------
(* Trees xmltodict can produce, by number of nodes.  A leaf is a text or  *)
(* None, a dict has at least one entry and distinct keys, a list (repeated *)
(* sibling elements) has at least two items.                               *)

MaxNodes == 4

RECURSIVE TreesOfSize(_, _, _), EntriesOfSize(_, _, _), ItemsOfSize(_, _, _)
TreesOfSize(n, ks, leaves) ==
    IF n = 1 THEN leaves
    ELSE {Dict(es) : es \in EntriesOfSize(n - 1, ks, leaves)}
         \cup {List(xs) : xs \in {ys \in ItemsOfSize(n - 1, ks, leaves) : Len(ys) >= 2}}

EntriesOfSize(n, ks, leaves) ==
    IF n = 0 THEN {<<>>}
    ELSE UNION {
            UNION {
                {<<<<key, t>>>> \o rest :
                    rest \in {r \in EntriesOfSize(n - m, ks, leaves) :
                                 \A i \in 1..Len(r) : r[i][1] # key}}
                : key \in ks, t \in TreesOfSize(m, ks, leaves)}
            : m \in 1..n}

ItemsOfSize(n, ks, leaves) ==
    IF n = 0 THEN {<<>>}
    ELSE UNION {
            UNION {
                {<<t>> \o rest : rest \in ItemsOfSize(n - m, ks, leaves)}
                : t \in TreesOfSize(m, ks, leaves)}
            : m \in 1..n}

\* documents: the root is a dict
DocsUpTo(n, ks, leaves) ==
    UNION {{t \in TreesOfSize(m, ks, leaves) : IsDict(t)} : m \in 2..n}

-----------------------------------------------------------------------------
(* utils/helpers.py *)

RECURSIVE Walk(_, _, _)
\* the loop of get_nested_value over the path's segments, from segment i
Walk(node, path, i) ==
    IF i > Len(path) THEN node
    ELSE IF ~IsDict(node) THEN NoneV
    ELSE LET next == DictGet(node, path[i])
         IN  IF IsNone(next) THEN NoneV ELSE Walk(next, path, i + 1)

\* value == "" or str(value) == "None"
IsEmptyOrNoneText(x) ==
    IsStr(x) /\ (x[2] = EmptyText \/ x[2] = NoneText)

\* get_nested_value without its last test (lines 101-103 dropped)
get_nested_value_raw(d, path) == Walk(d, path, 1)

get_nested_value(d, path) ==
    LET found == Walk(d, path, 1)
    IN  IF IsNone(found) \/ IsEmptyOrNoneText(found) THEN NoneV ELSE found

-----------------------------------------------------------------------------
(* Texts and numbers *)

Digits == <<"0", "1", "2", "3", "4", "5", "6", "7", "8", "9">>
IsDigit(c) == \E i \in 1..10 : Digits[i] = c
DigitVal(c) == (CHOOSE i \in 1..10 : Digits[i] = c) - 1

\* the outcome of an operation that raised an exception
Raised == <<"raised", <<>>>>
IsRaised(x) == x[1] = "raised"

RECURSIVE StripLeft(_), StripRight(_), Pow10(_), NatOf(_), Normalize(_, _)
StripLeft(s) == IF s # <<>> /\ Head(s) = " " THEN StripLeft(Tail(s)) ELSE s
StripRight(s) ==
    IF s # <<>> /\ s[Len(s)] = " " THEN StripRight(SubSeq(s, 1, Len(s) - 1)) ELSE s
\* str.strip()
Strip(s) == StripRight(StripLeft(s))

\* str.replace(c, '') and str.replace(c, d), c and d single characters
Remove(s, c) == SelectSeq(s, LAMBDA x : x # c)
Replace(s, c, d) == [i \in 1..Len(s) |-> IF s[i] = c THEN d ELSE s[i]]

Pow10(n) == IF n = 0 THEN 1 ELSE 10 * Pow10(n - 1)
\* the number a sequence of digits writes
NatOf(ds) == IF ds = <<>> THEN 0 ELSE 10 * NatOf(SubSeq(ds, 1, Len(ds) - 1)) + DigitVal(ds[Len(ds)])

\* floats compare by value: 1.50 = 1.5, -0.0 = 0.0
Normalize(m, e) ==
    IF m = 0 THEN Num(0, 0)
    ELSE IF e > 0 /\ m % 10 = 0 THEN Normalize(m \div 10, e - 1)
    ELSE Num(m, e)

\* float(s) for a text s of digits, '.', ',', '+', '-', spaces and letters
\* that spell neither an exponent nor inf/nan: optional sign, digits with at
\* most one '.', at least one digit, surrounding whitespace ignored;
\* anything else raises ValueError
PyFloatText(s) ==
    LET t == Strip(s)
        signed == t # <<>> /\ Head(t) \in {"+", "-"}
        body == IF signed THEN Tail(t) ELSE t
        dots == {i \in 1..Len(body) : body[i] = "."}
        ok == /\ \A i \in 1..Len(body) : IsDigit(body[i]) \/ body[i] = "."
              /\ Cardinality(dots) <= 1
              /\ \E i \in 1..Len(body) : IsDigit(body[i])
        e == IF dots = {} THEN 0 ELSE Len(body) - (CHOOSE i \in dots : TRUE)
        m == NatOf(Remove(body, "."))
    IN  IF ~ok THEN Raised
        ELSE Normalize(IF signed /\ Head(t) = "-" THEN 0 - m ELSE m, e)

\* float(x): a number as it is, a text parsed, TypeError for the rest
PyFloat(x) ==
    IF IsNum(x) THEN x
    ELSE IF IsStr(x) THEN PyFloatText(x[2])
    ELSE Raised

DefaultFloat == Num(0, 0)

\* lines 122-130 of safe_float, without the try/except around them
safe_float_body(x) ==
    IF IsNone(x) \/ (IsStr(x) /\ Strip(x[2]) \in {NoneText, EmptyText}) THEN DefaultFloat
    ELSE IF IsStr(x) THEN PyFloat(Str(Replace(Remove(Strip(x[2]), "."), ",", ".")))
    ELSE PyFloat(x)

\* safe_float replacing the comma before it removes the periods
safe_float_swapped(x) ==
    IF IsNone(x) \/ (IsStr(x) /\ Strip(x[2]) \in {NoneText, EmptyText}) THEN DefaultFloat
    ELSE LET r == IF IsStr(x)
                  THEN PyFloat(Str(Remove(Replace(Strip(x[2]), ",", "."), ".")))
                  ELSE PyFloat(x)
         IN  IF IsRaised(r) THEN DefaultFloat ELSE r

safe_float(x) ==
    LET r == safe_float_body(x)
    IN  IF IsRaised(r) THEN DefaultFloat ELSE r

-----------------------------------------------------------------------------
(* utils/helpers.py: parse_date.  A datetime is <<"date", <<year, month,   *)
(* day, hour, minute, second>>>>.  A format is the sequence of its         *)
(* directives and literal characters; strptime matches it as a regular     *)
(* expression (case-insensitive, a blank as \s+, the alternatives of a     *)
(* directive in their order, the whole text consumed) and then builds the  *)
(* datetime, which checks the calendar.                                    *)

Date(f) == <<"date", f>>
IsDate(x) == x[1] = "date"

UpperLetters == <<"A", "B", "C", "D", "E", "F", "G", "H", "I", "J", "K", "L", "M",
                  "N", "O", "P", "Q", "R", "S", "T", "U", "V", "W", "X", "Y", "Z">>
LowerLetters == <<"a", "b", "c", "d", "e", "f", "g", "h", "i", "j", "k", "l", "m",
                  "n", "o", "p", "q", "r", "s", "t", "u", "v", "w", "x", "y", "z">>
\* str.lower(), one character
LowerChar(c) ==
    IF \E i \in 1..26 : UpperLetters[i] = c
    THEN LowerLetters[CHOOSE i \in 1..26 : UpperLetters[i] = c]
    ELSE c
Lower(s) == [i \in 1..Len(s) |-> LowerChar(s[i])]

\* needle in hay
Contains(hay, needle) ==
    \E i \in 0..(Len(hay) - Len(needle)) :
        \A j \in 1..Len(needle) : hay[i + j] = needle[j]

\* hay.split(sep)[0]
BeforeFirst(hay, sep) ==
    IF Contains(hay, sep)
    THEN LET at == CHOOSE i \in 0..(Len(hay) - Len(sep)) :
                      /\ \A j \in 1..Len(sep) : hay[i + j] = sep[j]
                      /\ \A h \in 0..(i - 1) : \E j \in 1..Len(sep) : hay[h + j] # sep[j]
         IN  SubSeq(hay, 1, at)
    ELSE hay

DateFormats ==
    << <<"%Y", "-", "%m", "-", "%d", "T", "%H", ":", "%M", ":", "%S">>,
       <<"%Y", "-", "%m", "-", "%d", " ", "%H", ":", "%M", ":", "%S">>,
       <<"%d", "/", "%m", "/", "%Y", " ", "%H", ":", "%M", ":", "%S">>,
       <<"%Y", "-", "%m", "-", "%d">>,
       <<"%d", "/", "%m", "/", "%Y">>,
       <<"%Y", "%m", "%d">> >>

Directives == <<"%Y", "%m", "%d", "%H", "%M", "%S">>
FieldOf(tk) == CHOOSE i \in 1..6 : Directives[i] = tk

DigitsAt(s, i, n) == i + n - 1 <= Len(s) /\ \A j \in i..(i + n - 1) : IsDigit(s[j])

\* the ways directive tk can match at position i, as <<width, value>>, in the
\* order of the alternatives of its regular expression
Options(tk, s, i) ==
    LET two(lo, hi) ==
            IF DigitsAt(s, i, 2) /\ NatOf(SubSeq(s, i, i + 1)) \in lo..hi
            THEN << <<2, NatOf(SubSeq(s, i, i + 1))>> >> ELSE <<>>
        one(lo) ==
            IF DigitsAt(s, i, 1) /\ DigitVal(s[i]) >= lo
            THEN << <<1, DigitVal(s[i])>> >> ELSE <<>>
        blankOne ==
            IF i + 1 <= Len(s) /\ s[i] = " " /\ IsDigit(s[i + 1]) /\ DigitVal(s[i + 1]) >= 1
            THEN << <<2, DigitVal(s[i + 1])>> >> ELSE <<>>
    IN  CASE tk = "%Y" -> IF DigitsAt(s, i, 4)
                          THEN << <<4, NatOf(SubSeq(s, i, i + 3))>> >> ELSE <<>>
          [] tk = "%m" -> two(1, 12) \o one(1)
          [] tk = "%d" -> two(1, 31) \o one(1) \o blankOne
          [] tk = "%H" -> two(0, 23) \o one(0)
          [] tk = "%M" -> two(0, 59) \o one(0)
          [] tk = "%S" -> two(0, 61) \o one(0)

RECURSIVE BlanksAt(_, _), MatchFormat(_, _, _, _, _), MatchOptions(_, _, _, _, _, _, _),
          MatchBlanks(_, _, _, _, _, _)
\* the number of blanks from position i on
BlanksAt(s, i) == IF i <= Len(s) /\ s[i] = " " THEN 1 + BlanksAt(s, i + 1) ELSE 0

\* the fields of the first match of fmt from token j on against s from
\* position i on, as a set with at most one element
MatchFormat(s, i, fmt, j, acc) ==
    IF j > Len(fmt) THEN (IF i = Len(s) + 1 THEN {acc} ELSE {})
    ELSE IF \E d \in 1..6 : Directives[d] = fmt[j]
    THEN MatchOptions(s, i, fmt, j, acc, Options(fmt[j], s, i), 1)
    ELSE IF fmt[j] = " " THEN MatchBlanks(s, i, fmt, j, acc, BlanksAt(s, i))
    ELSE IF i <= Len(s) /\ LowerChar(s[i]) = LowerChar(fmt[j])
    THEN MatchFormat(s, i + 1, fmt, j + 1, acc)
    ELSE {}

MatchOptions(s, i, fmt, j, acc, opts, o) ==
    IF o > Len(opts) THEN {}
    ELSE LET rest == MatchFormat(s, i + opts[o][1], fmt, j + 1,
                                 [acc EXCEPT ![FieldOf(fmt[j])] = opts[o][2]])
         IN  IF rest # {} THEN rest ELSE MatchOptions(s, i, fmt, j, acc, opts, o + 1)

\* a blank of the format takes n blanks, or fewer when that fails
MatchBlanks(s, i, fmt, j, acc, n) ==
    IF n = 0 THEN {}
    ELSE LET rest == MatchFormat(s, i + n, fmt, j + 1, acc)
         IN  IF rest # {} THEN rest ELSE MatchBlanks(s, i, fmt, j, acc, n - 1)

IsLeap(y) == (y % 4 = 0 /\ y % 100 # 0) \/ y % 400 = 0
DaysIn(y, m) ==
    IF m = 2 THEN (IF IsLeap(y) THEN 29 ELSE 28)
    ELSE IF m \in {4, 6, 9, 11} THEN 30 ELSE 31

\* datetime(year, month, day, hour, minute, second) is accepted
ValidDate(f) ==
    /\ f[1] >= 1
    /\ f[3] <= DaysIn(f[1], f[2])
    /\ f[6] <= 59

\* datetime.strptime(s, fmt): the datetime, or Raised
Strptime(s, fmt) ==
    LET found == MatchFormat(s, 1, fmt, 1, <<1900, 1, 1, 0, 0, 0>>)
    IN  IF found = {} THEN Raised
        ELSE LET f == CHOOSE x \in found : TRUE
             IN  IF ValidDate(f) THEN Date(f) ELSE Raised

RECURSIVE TryFormats(_, _)
\* the loop over formats, from format i
TryFormats(s, i) ==
    IF i > Len(DateFormats) THEN NoneV
    ELSE LET r == Strptime(s, DateFormats[i])
         IN  IF IsRaised(r) THEN TryFormats(s, i + 1) ELSE r

\* parse_date cutting the text at '-03:00' only
parse_date_minus_only(s) ==
    IF s = EmptyText \/ s = NoneText THEN NoneV
    ELSE TryFormats(Strip(BeforeFirst(s, <<"-", "0", "3", ":", "0", "0">>)), 1)

\* parse_date knowing the ISO datetime format only
parse_date_iso_only(s) ==
    IF s = EmptyText \/ s = NoneText THEN NoneV
    ELSE LET r == Strptime(Strip(BeforeFirst(BeforeFirst(s, <<"-", "0", "3", ":", "0", "0">>), <<"+">>)),
                           DateFormats[1])
         IN  IF IsRaised(r) THEN NoneV ELSE r

\* str(d) of a datetime without microseconds: YYYY-MM-DD HH:MM:SS
Pad(n, w) == [i \in 1..w |-> Digits[((n \div Pow10(w - i)) % 10) + 1]]
DateStr(d) ==
    Pad(d[2][1], 4) \o <<"-">> \o Pad(d[2][2], 2) \o <<"-">> \o Pad(d[2][3], 2) \o <<" ">>
    \o Pad(d[2][4], 2) \o <<":">> \o Pad(d[2][5], 2) \o <<":">> \o Pad(d[2][6], 2)

\* parse_date of a text
parse_date(s) ==
    IF s = EmptyText \/ s = NoneText THEN NoneV
    ELSE TryFormats(Strip(BeforeFirst(BeforeFirst(s, <<"-", "0", "3", ":", "0", "0">>), <<"+">>)), 1)

-----------------------------------------------------------------------------
(* modules/xml_parser.py: XMLParser._search_recursive *)

RECURSIVE _search_recursive(_, _, _), SearchItems(_, _, _, _)

\* the loop over data.items(), from entry i
SearchItems(es, i, ks, ctx) ==
    IF i > Len(es) THEN NoneV
    ELSE IF es[i][1] \in Range(ks) THEN es[i][2]
    ELSE LET r == _search_recursive(es[i][2], ks, ctx)
         IN  IF ~IsNone(r) THEN r ELSE SearchItems(es, i + 1, ks, ctx)

_search_recursive(d, ks, ctx) ==
    LET scoped ==
            IF IsDict(d) /\ ctx # "" /\ HasKey(d, ctx)
            THEN _search_recursive(DictGet(d, ctx), ks, "")
            ELSE NoneV
    IN  IF ~IsNone(scoped) THEN scoped
        ELSE IF IsDict(d) THEN SearchItems(d[2], 1, ks, ctx)
        ELSE IF IsList(d) /\ Len(d[2]) > 0 THEN _search_recursive(d[2][1], ks, ctx)
        ELSE NoneV

-----------------------------------------------------------------------------
(* config.py: DEFAULT_XML_FIELDS, each entry <<field name, candidate paths>>; *)
(* a field name is the sequence of its characters.                            *)

FieldMapping == <<
    << <<"N", "ú", "m", "e", "r", "o", " ", "d", "a", " ", "N", "o", "t", "a">>,
       << <<"nfeProc", "NFe", "infNFe", "ide", "nNF">>,
          <<"NFe", "infNFe", "ide", "nNF">>,
          <<"nfe", "infNFe", "ide", "nNF">>,
          <<"infNFe", "ide", "nNF">>,
          <<"ide", "nNF">>,
          <<"nNF">>,
          <<"numero">> >> >>,
    << <<"D", "a", "t", "a", " ", "d", "e", " ", "E", "m", "i", "s", "s", "ã", "o">>,
       << <<"nfeProc", "NFe", "infNFe", "ide", "dhEmi">>,
          <<"NFe", "infNFe", "ide", "dhEmi">>,
          <<"nfe", "infNFe", "ide", "dhEmi">>,
          <<"infNFe", "ide", "dhEmi">>,
          <<"ide", "dhEmi">>,
          <<"ide", "dEmi">>,
          <<"dhEmi">>,
          <<"dEmi">>,
          <<"dataEmissao">> >> >>,
    << <<"C", "N", "P", "J", " ", "E", "m", "i", "t", "e", "n", "t", "e">>,
       << <<"nfeProc", "NFe", "infNFe", "emit", "CNPJ">>,
          <<"NFe", "infNFe", "emit", "CNPJ">>,
          <<"nfe", "infNFe", "emit", "CNPJ">>,
          <<"infNFe", "emit", "CNPJ">>,
          <<"emit", "CNPJ">>,
          <<"emitente", "CNPJ">>,
          <<"emitente", "cnpj">> >> >>,
    << <<"N", "o", "m", "e", " ", "E", "m", "i", "t", "e", "n", "t", "e">>,
       << <<"nfeProc", "NFe", "infNFe", "emit", "xNome">>,
          <<"NFe", "infNFe", "emit", "xNome">>,
          <<"nfe", "infNFe", "emit", "xNome">>,
          <<"infNFe", "emit", "xNome">>,
          <<"emit", "xNome">>,
          <<"emitente", "xNome">>,
          <<"emitente", "nome">> >> >>,
    << <<"C", "N", "P", "J", " ", "D", "e", "s", "t", "i", "n", "a", "t", "á", "r", "i", "o">>,
       << <<"nfeProc", "NFe", "infNFe", "dest", "CNPJ">>,
          <<"NFe", "infNFe", "dest", "CNPJ">>,
          <<"nfe", "infNFe", "dest", "CNPJ">>,
          <<"infNFe", "dest", "CNPJ">>,
          <<"dest", "CNPJ">>,
          <<"destinatario", "CNPJ">>,
          <<"destinatario", "cnpj">> >> >>,
    << <<"N", "o", "m", "e", " ", "D", "e", "s", "t", "i", "n", "a", "t", "á", "r", "i", "o">>,
       << <<"nfeProc", "NFe", "infNFe", "dest", "xNome">>,
          <<"NFe", "infNFe", "dest", "xNome">>,
          <<"nfe", "infNFe", "dest", "xNome">>,
          <<"infNFe", "dest", "xNome">>,
          <<"dest", "xNome">>,
          <<"destinatario", "xNome">>,
          <<"destinatario", "nome">> >> >>,
    << <<"V", "a", "l", "o", "r", " ", "T", "o", "t", "a", "l">>,
       << <<"nfeProc", "NFe", "infNFe", "total", "ICMSTot", "vNF">>,
          <<"NFe", "infNFe", "total", "ICMSTot", "vNF">>,
          <<"nfe", "infNFe", "total", "ICMSTot", "vNF">>,
          <<"infNFe", "total", "ICMSTot", "vNF">>,
          <<"total", "ICMSTot", "vNF">>,
          <<"ICMSTot", "vNF">>,
          <<"vNF">>,
          <<"valorTotal">>,
          <<"valorNF">> >> >>,
    << <<"V", "a", "l", "o", "r", " ", "P", "r", "o", "d", "u", "t", "o", "s">>,
       << <<"nfeProc", "NFe", "infNFe", "total", "ICMSTot", "vProd">>,
          <<"NFe", "infNFe", "total", "ICMSTot", "vProd">>,
          <<"nfe", "infNFe", "total", "ICMSTot", "vProd">>,
          <<"infNFe", "total", "ICMSTot", "vProd">>,
          <<"total", "ICMSTot", "vProd">>,
          <<"ICMSTot", "vProd">>,
          <<"vProd">>,
          <<"valorProdutos">> >> >>,
    << <<"C", "h", "a", "v", "e", " ", "N", "F", "e">>,
       << <<"nfeProc", "protNFe", "infProt", "chNFe">>,
          <<"protNFe", "infProt", "chNFe">>,
          <<"nfeProc", "NFe", "infNFe", "@Id">>,
          <<"NFe", "infNFe", "@Id">>,
          <<"nfe", "infNFe", "@Id">>,
          <<"infNFe", "@Id">>,
          <<"chNFe">>,
          <<"chave">> >> >> >>

FieldNames == [i \in 1..Len(FieldMapping) |-> FieldMapping[i][1]]

-----------------------------------------------------------------------------
(* modules/xml_parser.py: XMLParser._extract_fields_enhanced *)

RECURSIVE PyRepr(_), ReprEntries(_, _), ReprItems(_, _)
\* repr(value) of a tree: a text in quotes, None, a dict in braces and a
\* list in brackets; the name of a key is one element of the text
PyRepr(x) ==
    IF IsStr(x) THEN <<"'">> \o x[2] \o <<"'">>
    ELSE IF IsNone(x) THEN NoneText
    ELSE IF IsDate(x) THEN DateStr(x)
    ELSE IF IsDict(x) THEN <<"{">> \o ReprEntries(x[2], 1) \o <<"}">>
    ELSE <<"[">> \o ReprItems(x[2], 1) \o <<"]">>

ReprEntries(es, i) ==
    IF i > Len(es) THEN <<>>
    ELSE (IF i > 1 THEN <<",", " ">> ELSE <<>>)
         \o <<"'", es[i][1], "'", ":", " ">> \o PyRepr(es[i][2]) \o ReprEntries(es, i + 1)

ReprItems(xs, i) ==
    IF i > Len(xs) THEN <<>>
    ELSE (IF i > 1 THEN <<",", " ">> ELSE <<>>) \o PyRepr(xs[i]) \o ReprItems(xs, i + 1)

\* str(value): a text is itself, anything else is written as repr does
PyStr(x) == IF IsStr(x) THEN x[2] ELSE PyRepr(x)

\* value is not None and value != ''
IsFound(x) == ~IsNone(x) /\ x # Str(EmptyText)

RECURSIVE FirstPathValue_reversed(_, _, _)
\* the loop over possible_paths taking the paths from the last to the first
FirstPathValue_reversed(xml, paths, i) ==
    IF paths = <<>> THEN NoneV
    ELSE LET j == Len(paths) + 1 - i
             found == get_nested_value(xml, paths[j])
         IN  IF IsFound(found) \/ i = Len(paths) THEN found
             ELSE FirstPathValue_reversed(xml, paths, i + 1)

RECURSIVE FirstPathValue(_, _, _)
\* lines 100-108: the value the loop over possible_paths leaves, from path i
FirstPathValue(xml, paths, i) ==
    IF paths = <<>> THEN NoneV
    ELSE LET found == get_nested_value(xml, paths[i])
         IN  IF IsFound(found) \/ i = Len(paths) THEN found
             ELSE FirstPathValue(xml, paths, i + 1)

W_Nota == <<"N", "o", "t", "a">>
W_Numero == <<"N", "ú", "m", "e", "r", "o">>
W_Data == <<"D", "a", "t", "a">>
W_Emissao == <<"E", "m", "i", "s", "s", "ã", "o">>
W_CNPJ == <<"C", "N", "P", "J">>
W_Nome == <<"N", "o", "m", "e">>
W_Emitente == <<"E", "m", "i", "t", "e", "n", "t", "e">>
W_Destinatario == <<"D", "e", "s", "t", "i", "n", "a", "t", "á", "r", "i", "o">>
W_ValorTotal == <<"V", "a", "l", "o", "r", " ", "T", "o", "t", "a", "l">>
W_ValorProdutos == <<"V", "a", "l", "o", "r", " ", "P", "r", "o", "d", "u", "t", "o", "s">>
W_Chave == <<"C", "h", "a", "v", "e">>
W_valor == <<"v", "a", "l", "o", "r">>
W_total == <<"t", "o", "t", "a", "l">>
W_data == <<"d", "a", "t", "a">>

\* lines 113-130: the keyword search chosen by the field's name, as
\* <<keys, context>>; <<>> when no rule applies
FallbackRule(name) ==
    IF Contains(name, W_Nota) \/ Contains(name, W_Numero)
        THEN << <<"nNF", "numero">>, "" >>
    ELSE IF Contains(name, W_Data) /\ Contains(name, W_Emissao)
        THEN << <<"dhEmi", "dEmi", "dataEmissao">>, "" >>
    ELSE IF Contains(name, W_CNPJ) /\ Contains(name, W_Emitente)
        THEN << <<"CNPJ">>, "emit" >>
    ELSE IF Contains(name, W_Nome) /\ Contains(name, W_Emitente)
        THEN << <<"xNome", "nome">>, "emit" >>
    ELSE IF Contains(name, W_CNPJ) /\ Contains(name, W_Destinatario)
        THEN << <<"CNPJ">>, "dest" >>
    ELSE IF Contains(name, W_Nome) /\ Contains(name, W_Destinatario)
        THEN << <<"xNome", "nome">>, "dest" >>
    ELSE IF Contains(name, W_ValorTotal)
        THEN << <<"vNF", "valorNF", "vTotal">>, "" >>
    ELSE IF Contains(name, W_ValorProdutos)
        THEN << <<"vProd", "valorProd">>, "" >>
    ELSE IF Contains(name, W_Chave)
        THEN << <<"chNFe", "chave">>, "" >>
    ELSE <<>>

\* lines 111-130: the value after the keyword-search fallback
WithFallback(xml, name, found) ==
    IF IsFound(found) \/ FallbackRule(name) = <<>> THEN found
    ELSE _search_recursive(xml, FallbackRule(name)[1], FallbackRule(name)[2])

\* the conversion looking for 'valor', 'total' and 'data' in the name as
\* it is written
Coerce_case_sensitive(name, found) ==
    IF ~IsFound(found) THEN found
    ELSE IF Contains(name, W_valor) \/ Contains(name, W_total)
        THEN safe_float(found)
    ELSE IF Contains(name, W_data)
        THEN LET parsed_date == parse_date(PyStr(found))
             IN  IF ~IsNone(parsed_date) THEN parsed_date ELSE found
    ELSE found

\* the conversion storing None for a date it cannot read
Coerce_null_date(name, found) ==
    IF ~IsFound(found) THEN found
    ELSE IF Contains(Lower(name), W_valor) \/ Contains(Lower(name), W_total)
        THEN safe_float(found)
    ELSE IF Contains(Lower(name), W_data)
        THEN parse_date(PyStr(found))
    ELSE found

\* lines 133-145: the conversion chosen by the field's name
Coerce(name, found) ==
    IF ~IsFound(found) THEN found
    ELSE IF Contains(Lower(name), W_valor) \/ Contains(Lower(name), W_total)
        THEN safe_float(found)
    ELSE IF Contains(Lower(name), W_data)
        THEN LET parsed_date == parse_date(PyStr(found))
             IN  IF ~IsNone(parsed_date) THEN parsed_date ELSE found
    ELSE found

\* lines 99-150: one turn of the loop over the field mapping
ExtractField(xml, name, paths) ==
    Coerce(name, WithFallback(xml, name, FirstPathValue(xml, paths, 1)))

\* _extract_fields_enhanced storing only the fields it found
extract_fields_found_only(xml) ==
    SelectSeq([i \in 1..Len(FieldMapping) |->
                  <<FieldMapping[i][1], ExtractField(xml, FieldMapping[i][1], FieldMapping[i][2])>>],
              LAMBDA e : ~IsNone(e[2]))

\* the record, as the sequence of its <<field name, value>> items in
\* insertion order
_extract_fields_enhanced(xml) ==
    [i \in 1..Len(FieldMapping) |->
        <<FieldMapping[i][1], ExtractField(xml, FieldMapping[i][1], FieldMapping[i][2])>>]

-----------------------------------------------------------------------------
(* modules/xml_parser.py: _parse_single_xml and parse_multiple_xmls.       *)
(* A file content is <<"xml", tree>> when xmltodict parses it to tree and  *)
(* <<"bad", <<>>>> when it is malformed.  A record is a dict whose keys    *)
(* are field names; a table is <<"frame", <<columns, rows>>>>, each row    *)
(* the sequence of its cells in column order.                              *)

ArquivoOrigem == <<"_", "a", "r", "q", "u", "i", "v", "o", "_", "o", "r", "i", "g", "e", "m">>
DataProcessamento == <<"_", "d", "a", "t", "a", "_", "p", "r", "o", "c", "e", "s", "s", "a", "m", "e", "n", "t", "o">>

\* xmltodict.parse(xml_content.decode('utf-8', errors='ignore'))
XmlParse(content) == IF content[1] = "xml" THEN content[2] ELSE Raised

\* _parse_single_xml keeping a record of the file name when the parse fails
parse_single_xml_partial(filename, content) ==
    IF IsRaised(XmlParse(content)) THEN Dict(<< <<ArquivoOrigem, filename>> >>)
    ELSE Dict(Append(_extract_fields_enhanced(XmlParse(content)), <<ArquivoOrigem, filename>>))

\* lines 62-83: the record with its source file, None when anything raised
_parse_single_xml(filename, content) ==
    LET parsed == XmlParse(content)
    IN  IF IsRaised(parsed) THEN NoneV
        ELSE Dict(Append(_extract_fields_enhanced(parsed), <<ArquivoOrigem, filename>>))

\* collecting the records newest first
CollectFirst(all, parsed_data) ==
    IF IsNone(parsed_data) \/ parsed_data = Dict(<<>>) THEN all ELSE <<parsed_data>> \o all

\* lines 32-33: if parsed_data: all_data.append(parsed_data)
Collect(all, parsed_data) ==
    IF IsNone(parsed_data) \/ parsed_data = Dict(<<>>) THEN all ELSE Append(all, parsed_data)

RECURSIVE UnionKeys(_, _, _)
\* the columns pd.DataFrame gives a list of dicts: their keys in order of
\* first appearance
UnionKeys(recs, i, acc) ==
    IF i > Len(recs) THEN acc
    ELSE LET ks == DictKeys(recs[i])
             fresh == SelectSeq(ks, LAMBDA key : \A j \in 1..Len(acc) : acc[j] # key)
         IN  UnionKeys(recs, i + 1, acc \o fresh)

EmptyFrame == <<"frame", <<<<>>, <<>>>>>>
IsFrame(x) == x[1] = "frame"
Columns(frame) == frame[2][1]
Rows(frame) == frame[2][2]

\* the table of the records collected, without the columns no record fills
BuildFrame_dropna(recs, now) ==
    IF recs = <<>> THEN EmptyFrame
    ELSE LET cols == SelectSeq(UnionKeys(recs, 1, <<>>),
                               LAMBDA key : \E r \in 1..Len(recs) : ~IsNone(DictGet(recs[r], key)))
         IN  IF \A j \in 1..Len(cols) : cols[j] # ArquivoOrigem THEN Raised
             ELSE <<"frame",
                    << Append(cols, DataProcessamento),
                       [r \in 1..Len(recs) |->
                           Append([c \in 1..Len(cols) |-> DictGet(recs[r], cols[c])], now)] >> >>

\* lines 38-49: the table of the records collected, at time now
BuildFrame(recs, now) ==
    IF recs = <<>> THEN EmptyFrame
    ELSE LET cols == UnionKeys(recs, 1, <<>>)
         IN  IF \A j \in 1..Len(cols) : cols[j] # ArquivoOrigem THEN Raised
             ELSE <<"frame",
                    << Append(cols, DataProcessamento),
                       [r \in 1..Len(recs) |->
                           Append([c \in 1..Len(cols) |-> DictGet(recs[r], cols[c])], now)] >> >>

-----------------------------------------------------------------------------
(* modules/data_formatter.py: DataFormatter._format_document *)

\* re.sub(r'\D', '', text)
OnlyDigits(t) == SelectSeq(t, IsDigit)

\* _format_document formatting the text as it came, punctuation included
format_document_unstripped(doc) ==
    IF IsNone(doc) \/ Strip(PyStr(doc)) \in {NoneText, EmptyText} THEN Str(EmptyText)
    ELSE LET d == PyStr(doc)
         IN  IF Len(d) = 14
             THEN Str(SubSeq(d, 1, 2) \o <<".">> \o SubSeq(d, 3, 5) \o <<".">> \o SubSeq(d, 6, 8)
                      \o <<"/">> \o SubSeq(d, 9, 12) \o <<"-">> \o SubSeq(d, 13, 14))
             ELSE IF Len(d) = 11
             THEN Str(SubSeq(d, 1, 3) \o <<".">> \o SubSeq(d, 4, 6) \o <<".">> \o SubSeq(d, 7, 9)
                      \o <<"-">> \o SubSeq(d, 10, 11))
             ELSE Str(d)

\* lines 89-103
_format_document(doc) ==
    IF IsNone(doc) \/ Strip(PyStr(doc)) \in {NoneText, EmptyText} THEN Str(EmptyText)
    ELSE LET d == OnlyDigits(PyStr(doc))
         IN  IF Len(d) = 14
             THEN Str(SubSeq(d, 1, 2) \o <<".">> \o SubSeq(d, 3, 5) \o <<".">> \o SubSeq(d, 6, 8)
                      \o <<"/">> \o SubSeq(d, 9, 12) \o <<"-">> \o SubSeq(d, 13, 14))
             ELSE IF Len(d) = 11
             THEN Str(SubSeq(d, 1, 3) \o <<".">> \o SubSeq(d, 4, 6) \o <<".">> \o SubSeq(d, 7, 9)
                      \o <<"-">> \o SubSeq(d, 10, 11))
             ELSE Str(d)

-----------------------------------------------------------------------------
(* modules/data_filter.py and DataFormatter.fill_missing_values.  The      *)
(* table a transform works on is <<"frame", <<columns, rows, index>>>>:    *)
(* the index holds the label of each row, 0, 1, 2, ... in a table just     *)
(* built, and a row keeps its label when rows around it are dropped.  A    *)
(* missing cell (None, NaN, NaT, pd.NA) is NoneV.                          *)

Frame(cols, rows, index) == <<"frame", <<cols, rows, index>>>>
Index(frame) == frame[2][3]
RangeFrame(cols, rows) == Frame(cols, rows, [r \in 1..Len(rows) |-> r - 1])

\* name in df.columns
HasColumn(frame, name) == \E j \in 1..Len(Columns(frame)) : Columns(frame)[j] = name
ColumnPos(frame, name) == CHOOSE j \in 1..Len(Columns(frame)) : Columns(frame)[j] = name
\* df[name]
Series(frame, name) == [r \in 1..Len(Rows(frame)) |-> Rows(frame)[r][ColumnPos(frame, name)]]
\* df[name] = series
SetColumn(frame, name, series) ==
    Frame(Columns(frame),
          [r \in 1..Len(Rows(frame)) |->
              [Rows(frame)[r] EXCEPT ![ColumnPos(frame, name)] = series[r]]],
          Index(frame))

\* the positions the mask of booleans holds at, in order
Positions(mask) == SelectSeq([i \in 1..Len(mask) |-> i], LAMBDA i : mask[i])

\* df[mask]: the rows the mask holds for, with their labels
Take(frame, mask) ==
    LET at == Positions(mask)
    IN  Frame(Columns(frame),
              [k \in 1..Len(at) |-> Rows(frame)[at[k]]],
              [k \in 1..Len(at) |-> Index(frame)[at[k]]])

\* the cells of row r in the columns named, as drop_duplicates compares them
RowKey(frame, r, names) == [k \in 1..Len(names) |-> Rows(frame)[r][ColumnPos(frame, names[k])]]

\* drop_duplicates keeping the last row of each group
DropDuplicatesLast(frame, subset) ==
    LET names == IF IsNone(subset) THEN Columns(frame) ELSE subset[2]
    IN  IF \E k \in 1..Len(names) : ~HasColumn(frame, names[k]) THEN Raised
        ELSE Take(frame, [r \in 1..Len(Rows(frame)) |->
                            \A q \in (r + 1)..Len(Rows(frame)) :
                                RowKey(frame, q, names) # RowKey(frame, r, names)])

\* hash(cell) raises TypeError: the cell is a dict or a list
IsUnhashable(x) == IsDict(x) \/ IsList(x)

\* df.drop_duplicates(subset=subset, keep='first'), subset None or a list
\* of column names; KeyError for a name that is no column, TypeError for a
\* cell that cannot be hashed
DropDuplicates(frame, subset) ==
    LET names == IF IsNone(subset) THEN Columns(frame) ELSE subset[2]
    IN  IF \E k \in 1..Len(names) : ~HasColumn(frame, names[k]) THEN Raised
        ELSE IF \E r \in 1..Len(Rows(frame)), k \in 1..Len(names) :
                    IsUnhashable(RowKey(frame, r, names)[k]) THEN Raised
        ELSE Take(frame, [r \in 1..Len(Rows(frame)) |->
                            \A q \in 1..(r - 1) :
                                RowKey(frame, q, names) # RowKey(frame, r, names)])

\* data_filter.py lines 168-180
remove_duplicates(frame, subset) ==
    LET deduplicated_df == DropDuplicates(frame, subset)
    IN  IF IsRaised(deduplicated_df) THEN frame ELSE deduplicated_df

\* a value is true as a condition: not None, not an empty text, not zero
Truthy(x) == ~IsNone(x) /\ x # Str(EmptyText) /\ ~(IsNum(x) /\ x[2][1] = 0)

RECURSIVE TupleLess(_, _, _)
\* a before b, from field i on
TupleLess(a, b, i) ==
    IF i > Len(a) THEN FALSE
    ELSE IF a[i] # b[i] THEN a[i] < b[i]
    ELSE TupleLess(a, b, i + 1)

\* a < b for two datetimes
DateLt(a, b) == TupleLess(a[2], b[2], 1)
\* a <= b for two datetimes
DateLeq(a, b) == a = b \/ TupleLess(a[2], b[2], 1)

\* t is written YYYY-MM-DD
IsIsoDateText(t) ==
    /\ Len(t) = 10
    /\ t[5] = "-" /\ t[8] = "-"
    /\ \A i \in {1, 2, 3, 4, 6, 7, 9, 10} : IsDigit(t[i])

\* does the text t hold a digit or a letter other than x
IsOpaqueText(t) == \A i \in 1..Len(t) : t[i] = "x"

\* pd.to_datetime(value) of one value: a datetime as it is, an ISO date read
\* at midnight, Raised for a text of x's, which no parser reads
ToTimestamp(x) ==
    CASE IsDate(x) -> x
      [] IsStr(x) /\ IsIsoDateText(x[2]) -> Strptime(x[2], DateFormats[4])
      [] IsStr(x) /\ ~IsIsoDateText(x[2]) /\ IsOpaqueText(x[2]) -> Raised

\* pd.to_datetime(series, errors='coerce'): what cannot be read is NaT
ToDatetimeCoerce(series) ==
    [r \in 1..Len(series) |->
        IF IsNone(series[r]) THEN NoneV
        ELSE LET t == ToTimestamp(series[r]) IN IF IsRaised(t) THEN NoneV ELSE t]

\* pd.api.types.is_datetime64_any_dtype(series): the column was built from
\* datetimes and missing values only, one datetime at least
IsDatetimeDtype(series) ==
    /\ \A r \in 1..Len(series) : IsDate(series[r]) \/ IsNone(series[r])
    /\ \E r \in 1..Len(series) : IsDate(series[r])

\* lines 62-74 of filter_by_date_range, without the try/except around them
filter_by_date_range_body(frame, date_column, start_date, end_date) ==
    LET converted == IF IsDatetimeDtype(Series(frame, date_column)) THEN frame
                     ELSE SetColumn(frame, date_column,
                                    ToDatetimeCoerce(Series(frame, date_column)))
        lower == IF Truthy(start_date) THEN ToTimestamp(start_date) ELSE NoneV
        from == IF ~Truthy(start_date) \/ IsRaised(lower) THEN converted
                ELSE Take(converted, [r \in 1..Len(Rows(converted)) |->
                        /\ IsDate(Series(converted, date_column)[r])
                        /\ DateLeq(lower, Series(converted, date_column)[r])])
        upper == IF Truthy(end_date) THEN ToTimestamp(end_date) ELSE NoneV
    IN  IF IsRaised(lower) \/ IsRaised(upper) THEN Raised
        ELSE IF ~Truthy(end_date) THEN from
        ELSE Take(from, [r \in 1..Len(Rows(from)) |->
                /\ IsDate(Series(from, date_column)[r])
                /\ DateLeq(Series(from, date_column)[r], upper)])

\* data_filter.py lines 54-78
filter_by_date_range(frame, date_column, start_date, end_date) ==
    IF ~HasColumn(frame, date_column) THEN frame
    ELSE LET filtered_df == filter_by_date_range_body(frame, date_column, start_date, end_date)
         IN  IF IsRaised(filtered_df) THEN frame ELSE filtered_df

\* a <= b for two numbers
NumLeq(a, b) == a[2][1] * Pow10(b[2][2]) <= b[2][1] * Pow10(a[2][2])

\* series >= bound (up) and series <= bound, for one cell and a bound that
\* is a number: a missing cell is false
CompareNum(x, bound, up) ==
    IF IsNone(x) THEN FALSE
    ELSE IF up THEN NumLeq(bound, x) ELSE NumLeq(x, bound)

\* pd.to_numeric(series, errors='coerce'): a number as it is, a text read as
\* float reads it, NaN for the rest
ToNumericCoerce(series) ==
    [r \in 1..Len(series) |->
        IF IsNum(series[r]) THEN series[r]
        ELSE IF IsStr(series[r]) /\ ~IsRaised(PyFloatText(series[r][2])) THEN PyFloatText(series[r][2])
        ELSE NoneV]

\* pd.api.types.is_numeric_dtype(series): the column was built from numbers
\* and missing values only, one number at least
IsNumericDtype(series) ==
    /\ \A r \in 1..Len(series) : IsNum(series[r]) \/ IsNone(series[r])
    /\ \E r \in 1..Len(series) : IsNum(series[r])

\* lines 103-116 of filter_by_value_range, without the try/except around them
filter_by_value_range_body(frame, value_column, min_value, max_value) ==
    LET converted == IF IsNumericDtype(Series(frame, value_column)) THEN frame
                     ELSE SetColumn(frame, value_column,
                                    ToNumericCoerce(Series(frame, value_column)))
        from == IF IsNone(min_value) \/ ~IsNum(min_value) THEN converted
                ELSE Take(converted, [r \in 1..Len(Rows(converted)) |->
                            CompareNum(Series(converted, value_column)[r], min_value, TRUE)])
    IN  IF (~IsNone(min_value) /\ ~IsNum(min_value)) \/ (~IsNone(max_value) /\ ~IsNum(max_value))
        THEN Raised
        ELSE IF IsNone(max_value) THEN from
        ELSE Take(from, [r \in 1..Len(Rows(from)) |->
                            CompareNum(Series(from, value_column)[r], max_value, FALSE)])

\* data_filter.py lines 96-120
filter_by_value_range(frame, value_column, min_value, max_value) ==
    IF ~HasColumn(frame, value_column) THEN frame
    ELSE LET filtered_df == filter_by_value_range_body(frame, value_column, min_value, max_value)
         IN  IF IsRaised(filtered_df) THEN frame ELSE filtered_df

\* series.astype(str), for a column of texts and missing values
AsTypeStr(series) == [r \in 1..Len(series) |-> Str(PyStr(series[r]))]

\* re.compile(pat) fails: a pattern that is no text is a TypeError; in a
\* pattern of letters, digits, blanks, '.' and '(' a '(' that nothing closes
\* is an error of the pattern
PatternError(pat) == ~IsStr(pat) \/ \E j \in 1..Len(pat[2]) : pat[2][j] = "("

\* re.search(pat, text) for such a pattern without '(': a '.' stands for
\* any character
RegexSearch(pat, text, ignore_case) ==
    \E i \in 0..(Len(text) - Len(pat[2])) :
        \A j \in 1..Len(pat[2]) :
            \/ pat[2][j] = "."
            \/ text[i + j] = pat[2][j]
            \/ ignore_case /\ LowerChar(text[i + j]) = LowerChar(pat[2][j])

\* lines 142-150 of filter_by_text, without the try/except around them
filter_by_text_body(frame, column, search_text, case_sensitive) ==
    LET filtered_df == SetColumn(frame, column, AsTypeStr(Series(frame, column)))
        mask == [r \in 1..Len(Rows(filtered_df)) |->
                    RegexSearch(search_text, Series(filtered_df, column)[r][2], ~case_sensitive)]
    IN  IF PatternError(search_text) THEN Raised
        ELSE Take(filtered_df, mask)

\* filter_by_text returning its working copy when the search failed
filter_by_text_keep_copy(frame, column, search_text, case_sensitive) ==
    IF ~HasColumn(frame, column) \/ ~Truthy(search_text) THEN frame
    ELSE LET filtered_df == filter_by_text_body(frame, column, search_text, case_sensitive)
         IN  IF IsRaised(filtered_df)
             THEN SetColumn(frame, column, AsTypeStr(Series(frame, column)))
             ELSE filtered_df

\* data_filter.py lines 138-154
filter_by_text(frame, column, search_text, case_sensitive) ==
    IF ~HasColumn(frame, column) \/ ~Truthy(search_text) THEN frame
    ELSE LET filtered_df == filter_by_text_body(frame, column, search_text, case_sensitive)
         IN  IF IsRaised(filtered_df) THEN frame ELSE filtered_df

\* the columns of the table, one series each
AllSeries(frame) == [c \in 1..Len(Columns(frame)) |-> Series(frame, Columns(frame)[c])]

\* the table with cols as its columns
WithSeries(frame, cols) ==
    Frame(Columns(frame),
          [r \in 1..Len(Rows(frame)) |-> [c \in 1..Len(Columns(frame)) |-> cols[c][r]]],
          Index(frame))

\* replace(['None'], pd.NA) only
ReplaceNoneExact(series) ==
    [r \in 1..Len(series) |-> IF series[r] = Str(NoneText) THEN NoneV ELSE series[r]]

\* line 137: replace(['None', 'none', 'NONE'], pd.NA)
ReplaceNoneWords(series) ==
    [r \in 1..Len(series) |->
        IF IsStr(series[r]) /\ series[r][2] \in {NoneText, noneText, NONEText}
        THEN NoneV ELSE series[r]]

\* series.fillna(v)
FillNa(series, v) == [r \in 1..Len(series) |-> IF IsNone(series[r]) THEN v ELSE series[r]]

RECURSIVE SumOf(_, _)
\* the sum of the numbers of the series from row i on, in units of 1/100
SumOf(series, i) ==
    IF i > Len(series) THEN 0
    ELSE (IF IsNum(series[i]) THEN series[i][2][1] * Pow10(2 - series[i][2][2]) ELSE 0)
         + SumOf(series, i + 1)

\* series.mean() of a numeric column whose mean has two decimals at most:
\* the missing cells do not count
Mean(series) ==
    LET n == Cardinality({r \in 1..Len(series) : IsNum(series[r])})
    IN  CASE SumOf(series, 1) % n = 0 -> Normalize(SumOf(series, 1) \div n, 2)

\* series.fillna(method='ffill'): the last valid value above, if there is one
FFill(series) ==
    [r \in 1..Len(series) |->
        IF ~IsNone(series[r]) \/ \A q \in 1..(r - 1) : IsNone(series[q]) THEN series[r]
        ELSE series[CHOOSE q \in 1..(r - 1) :
                        ~IsNone(series[q]) /\ \A h \in (q + 1)..(r - 1) : IsNone(series[h])]]

\* data_formatter.py lines 133-160; nothing in them raises on a table of
\* texts, numbers and missing values
fill_missing_values(frame, strategy) ==
    LET cols == AllSeries(frame)
        filled == [c \in 1..Len(cols) |-> ReplaceNoneWords(cols[c])]
        filled_df == WithSeries(frame, filled)
    IN  CASE strategy = "empty" ->
                WithSeries(frame, [c \in 1..Len(cols) |->
                    IF IsNumericDtype(filled[c]) THEN FillNa(filled[c], Num(0, 0))
                    ELSE FillNa(filled[c], Str(EmptyText))])
          [] strategy = "zero" ->
                WithSeries(frame, [c \in 1..Len(cols) |-> FillNa(filled[c], Num(0, 0))])
          [] strategy = "mean" ->
                WithSeries(frame, [c \in 1..Len(cols) |->
                    IF IsNumericDtype(filled[c]) THEN FillNa(filled[c], Mean(filled[c]))
                    ELSE filled[c]])
          [] strategy = "forward" ->
                WithSeries(frame, [c \in 1..Len(cols) |-> FFill(filled[c])])
          [] OTHER -> filled_df

-----------------------------------------------------------------------------
(* modules/upload_handler.py: UploadHandler._extract_zip.  An archive is   *)
(* <<"zip", members>> when zipfile opens it and <<"bad", <<>>>> when it    *)
(* raises BadZipFile; a member is <<filename, content, sound>>, filename   *)
(* the member's path inside the archive with '/' between its parts ('/' at *)
(* the end for a directory), sound false when reading the member fails on  *)
(* its checksum.                                                           *)

StartsWith(t, prefix) == Len(t) >= Len(prefix) /\ SubSeq(t, 1, Len(prefix)) = prefix
EndsWith(t, suffix) ==
    Len(t) >= Len(suffix) /\ SubSeq(t, Len(t) - Len(suffix) + 1, Len(t)) = suffix

DotXml == <<".", "x", "m", "l">>

\* ZipInfo.is_dir()
IsDirEntry(filename) == EndsWith(filename, <<"/">>)

RECURSIVE PathName(_)
\* Path(filename).name: what follows the last '/'
PathName(filename) ==
    IF \E i \in 1..Len(filename) : filename[i] = "/"
    THEN PathName(Tail(filename))
    ELSE filename

\* line 83: file_info.is_dir() or file_info.filename.startswith('.')
Skips(filename) == IsDirEntry(filename) \/ StartsWith(filename, <<".">>)

RECURSIVE ExtractMembers(_, _, _)
\* the loop of lines 81-91 from member i on, acc the pairs appended so far;
\* a member whose read raises ends the loop in the except of line 98
ExtractMembers(members, i, acc) ==
    IF i > Len(members) THEN acc
    ELSE LET file_info == members[i]
         IN  IF Skips(file_info[1]) THEN ExtractMembers(members, i + 1, acc)
             ELSE IF ~EndsWith(Lower(file_info[1]), DotXml) THEN ExtractMembers(members, i + 1, acc)
             ELSE IF ~file_info[3] THEN acc
             ELSE ExtractMembers(members, i + 1,
                                 Append(acc, <<Str(PathName(file_info[1])), file_info[2]>>))

\* lines 70-101
_extract_zip(zip_content) ==
    IF zip_content[1] = "bad" THEN <<>>
    ELSE ExtractMembers(zip_content[2], 1, <<>>)

-----------------------------------------------------------------------------
(* app.py: process_files and the download area of show_conversion_tab.    *)
(* An uploaded file is <<name, content>>, the content of a .zip an archive *)
(* and the content of a .xml what _parse_single_xml is given.  The session *)
(* is <<xml_files, df_processed, processing_complete>>; df is the table    *)
(* parse_multiple_xmls returned to the last run.                           *)

DotZip == <<".", "z", "i", "p">>

\* the value x, worked out once: the comparison makes TLC build the whole
\* table before the next step of the pipeline reads its cells
Once(x) == IF x = x THEN x ELSE x

RECURSIVE ProcessUploads(_, _, _)
\* upload_handler.py lines 35-56: the loop over the uploaded files from
\* file i, acc the pairs collected so far
ProcessUploads(uploaded_files, i, acc) ==
    IF i > Len(uploaded_files) THEN acc
    ELSE LET filename == uploaded_files[i][1][2]
             file_content == uploaded_files[i][2]
         IN  IF EndsWith(Lower(filename), DotZip)
             THEN ProcessUploads(uploaded_files, i + 1, acc \o _extract_zip(file_content))
             ELSE IF EndsWith(Lower(filename), DotXml)
             THEN ProcessUploads(uploaded_files, i + 1, Append(acc, uploaded_files[i]))
             ELSE ProcessUploads(uploaded_files, i + 1, acc)

\* upload_handler.py lines 19-58, the list of pairs returned
process_uploads(uploaded_files) == ProcessUploads(uploaded_files, 1, <<>>)

RECURSIVE ParseAll(_, _, _)
\* xml_parser.py lines 29-36: the loop over the pairs from pair i
ParseAll(files, i, all) ==
    IF i > Len(files) THEN all
    ELSE ParseAll(files, i + 1, Collect(all, _parse_single_xml(files[i][1], files[i][2])))

\* the table pd.DataFrame built, with the labels 0, 1, 2, ... of its rows
Labelled(built) ==
    IF IsRaised(built) THEN Raised ELSE RangeFrame(Columns(built), Rows(built))

\* xml_parser.py lines 17-49
parse_multiple_xmls(files, now) == Labelled(Once(BuildFrame(ParseAll(files, 1, <<>>), now)))

\* app.py line 421: series.replace(['None', 'none', None], '')
ReplaceNones(series) ==
    [r \in 1..Len(series) |->
        IF IsNone(series[r]) \/ (IsStr(series[r]) /\ series[r][2] \in {NoneText, noneText})
        THEN Str(EmptyText) ELSE series[r]]

\* df[names]
SelectColumns(frame, names) ==
    Frame(names,
          [r \in 1..Len(Rows(frame)) |->
              [c \in 1..Len(names) |-> Rows(frame)[r][ColumnPos(frame, names[c])]]],
          Index(frame))

W_preco == <<"p", "r", "e", "c", "o">>
W_preco_cedilha == <<"p", "r", "e", "ç", "o">>
W_custo == <<"c", "u", "s", "t", "o">>
W_desconto == <<"d", "e", "s", "c", "o", "n", "t", "o">>
W_cnpj == <<"c", "n", "p", "j">>
W_cpf == <<"c", "p", "f">>

\* data_formatter.py lines 56-59
_is_monetary_column(column_name) ==
    \E keyword \in {W_valor, W_total, W_preco, W_preco_cedilha, W_custo, W_desconto} :
        Contains(Lower(column_name), keyword)

\* data_formatter.py lines 71-75
convert_value(val) ==
    IF IsNone(val) \/ (~IsNum(val) /\ Strip(PyStr(val)) \in {NoneText, EmptyText}) THEN Num(0, 0)
    ELSE safe_float(val)

RECURSIVE CollapseBlanks(_)
\* re.sub(r'\s+', ' ', text)
CollapseBlanks(t) ==
    IF t = <<>> THEN <<>>
    ELSE IF Head(t) = " " /\ Len(t) > 1 /\ t[2] = " " THEN CollapseBlanks(Tail(t))
    ELSE <<Head(t)>> \o CollapseBlanks(Tail(t))

\* data_formatter.py lines 105-120
_clean_string(text) ==
    IF IsNone(text) \/ Strip(PyStr(text)) = NoneText THEN Str(EmptyText)
    ELSE Str(CollapseBlanks(Strip(PyStr(text))))

\* series.dtype == 'object': neither numbers nor datetimes only
IsObjectDtype(series) == ~IsNumericDtype(series) /\ ~IsDatetimeDtype(series)

\* data_formatter.py lines 32-52: one turn of the loop over the columns
FormatColumn(column, series) ==
    IF _is_monetary_column(column)
        THEN [r \in 1..Len(series) |-> convert_value(series[r])]
    ELSE IF Contains(Lower(column), W_cnpj) \/ Contains(Lower(column), W_cpf)
        THEN [r \in 1..Len(series) |-> _format_document(series[r])]
    ELSE IF Contains(Lower(column), W_data) \/ IsDatetimeDtype(series)
        THEN ToDatetimeCoerce(series)
    ELSE IF IsObjectDtype(series)
        THEN [r \in 1..Len(series) |-> _clean_string(series[r])]
    ELSE series

\* data_formatter.py lines 16-54
format_dataframe(frame) ==
    IF Rows(frame) = <<>> THEN frame
    ELSE WithSeries(frame, [c \in 1..Len(Columns(frame)) |->
                                FormatColumn(Columns(frame)[c], AllSeries(frame)[c])])

\* app.py lines 466-468: the columns named after a value hold numbers
IsValueColumn(column) ==
    \E keyword \in {W_valor, W_total, W_preco, W_custo} : Contains(Lower(column), keyword)

\* process_files without the loop of lines 466-468
EnsureNumeric_none(frame) == frame

\* app.py lines 466-468
EnsureNumeric(frame) ==
    WithSeries(frame, [c \in 1..Len(Columns(frame)) |->
        IF IsValueColumn(Columns(frame)[c])
        THEN FillNa(ToNumericCoerce(AllSeries(frame)[c]), Num(0, 0))
        ELSE AllSeries(frame)[c]])

\* app.py lines 420-421
ReplaceAllNones(frame) ==
    WithSeries(frame, [c \in 1..Len(Columns(frame)) |-> ReplaceNones(AllSeries(frame)[c])])

\* app.py lines 437-438: the selected columns and the provenance columns
KeepSelected(frame, available_cols) ==
    SelectColumns(frame, available_cols
                         \o SelectSeq(Columns(frame), LAMBDA col : StartsWith(col, <<"_">>)))

\* app.py lines 441-448
RemoveIfAsked(frame, dedup) == IF dedup THEN remove_duplicates(frame, NoneV) ELSE frame

\* app.py lines 455-456
FormatIfAsked(frame, format_dates, format_currency) ==
    IF format_dates \/ format_currency THEN format_dataframe(frame) ELSE frame

\* app.py line 463: df.fillna('')
FillAllNa(frame) ==
    WithSeries(frame, [c \in 1..Len(Columns(frame)) |->
                          FillNa(AllSeries(frame)[c], Str(EmptyText))])

\* app.py lines 420-468: the table from the cleaning to the end, each step
\* on the table of the step before
Finalize(frame, available_cols, dedup, format_dates, format_currency) ==
    EnsureNumeric(Once(FillAllNa(Once(fill_missing_values(
        Once(FormatIfAsked(
            Once(RemoveIfAsked(
                Once(KeepSelected(Once(ReplaceAllNones(frame)), available_cols)),
                dedup)),
            format_dates, format_currency)),
        "empty")))))

\* a return that withdraws the table of the session
ReturnEarly_cleared(session, found, parsed) == <<found, NoneV, FALSE, parsed>>

\* app.py lines 403-416 and 427-434, and the except of line 504: after
\* line 396 the run ends without writing the table or the flag of the session
ReturnEarly(session, found, parsed) == <<found, session[2], session[3], parsed>>

\* app.py lines 403-475: process_files once parse_multiple_xmls returned
\* (or raised)
ProcessParsed(session, found, parsed, selected_columns, dedup, format_dates, format_currency) ==
    IF IsRaised(parsed) THEN ReturnEarly(session, found, NoneV)
    ELSE IF Rows(parsed) = <<>> THEN ReturnEarly(session, found, parsed)
    ELSE IF \A k \in 1..Len(selected_columns) : ~HasColumn(parsed, selected_columns[k])
        THEN ReturnEarly(session, found, parsed)
    ELSE <<found,
           Finalize(parsed, SelectSeq(selected_columns, LAMBDA col : HasColumn(parsed, col)),
                    dedup, format_dates, format_currency),
           TRUE, parsed>>

\* app.py lines 392-475: process_files once process_uploads returned
ProcessFound(session, found, selected_columns, dedup, format_dates, format_currency, now) ==
    IF found = <<>> THEN <<session[1], session[2], session[3], NoneV>>
    ELSE ProcessParsed(session, found, Once(parse_multiple_xmls(found, now)),
                       selected_columns, dedup, format_dates, format_currency)

\* app.py lines 372-512: the session process_files leaves and, last, its
\* local table df as parse_multiple_xmls returned it (None when line 401
\* did not return); session is the session it found and dedup its parameter
\* remove_duplicates; an early return and the except of line 504 leave the
\* table and the flag of the session as they were
process_files(session, uploaded_files, selected_columns, dedup, format_dates, format_currency, now) ==
    ProcessFound(session, Once(process_uploads(uploaded_files)),
                 selected_columns, dedup, format_dates, format_currency, now)

\* the download area handing the table of the session to the exporter as it is
ExportTable_all(frame) == frame

\* app.py lines 270-272: the table given to the exporter
ExportTable(frame) ==
    SelectColumns(frame, SelectSeq(Columns(frame), LAMBDA col : ~StartsWith(col, <<"_">>)))

-----------------------------------------------------------------------------
(* Keyword search over bounded trees *)

SearchKeyNames == {"emit", "dest", "CNPJ"}
SearchLeaves == {NoneV, Str(<<"A">>), Str(<<"B">>)}
SearchDocs == DocsUpTo(MaxNodes, SearchKeyNames, SearchLeaves)

\* the lists of names searched for: one name, and two names in both orders
SearchKeyLists == {<<"CNPJ">>, <<"CNPJ", "dest">>, <<"dest", "CNPJ">>}

InitSearch ==
    /\ pc = "call"
    /\ data \in SearchDocs
    /\ keys \in SearchKeyLists
    /\ context \in {"", "emit", "dest"}
    /\ key_path = <<>>
    /\ result = NoneV
    /\ IdleSession
    /\ IdleFloat /\ IdleExtract /\ IdleBatch
    /\ IdleCoerce /\ IdleTransform

Search ==
    /\ pc = "call"
    /\ result' = _search_recursive(data, keys, context)
    /\ pc' = "done"
    /\ UNCHANGED <<data, keys, context, key_path, value, xml_dict, extracted_data,
                   xml_files, idx, all_data, df, again, args,
                   df_processed, processing_complete>>

NextSearch == Search

SpecSearch == InitSearch /\ [][NextSearch]_vars

-----------------------------------------------------------------------------
(* Dotted-path lookup over bounded trees *)

LocateKeyNames == {"emit", "CNPJ"}
LocateLeaves ==
    {NoneV, Str(EmptyText), Str(NoneText), Str(noneText), Str(NONEText), Str(<<"A">>)}
LocateDocs == DocsUpTo(MaxNodes, LocateKeyNames, LocateLeaves)
LocatePaths == {<<"CNPJ">>, <<"emit">>, <<"emit", "CNPJ">>, <<"emit", "emit", "CNPJ">>}

InitLocate ==
    /\ pc = "call"
    /\ data \in LocateDocs
    /\ key_path \in LocatePaths
    /\ keys = <<>>
    /\ context = ""
    /\ result = NoneV
    /\ IdleSession
    /\ IdleFloat /\ IdleExtract /\ IdleBatch
    /\ IdleCoerce /\ IdleTransform

Locate ==
    /\ pc = "call"
    /\ result' = get_nested_value(data, key_path)
    /\ pc' = "done"
    /\ UNCHANGED <<data, keys, context, key_path, value, xml_dict, extracted_data,
                   xml_files, idx, all_data, df, again, args,
                   df_processed, processing_complete>>

NextLocate == Locate

SpecLocate == InitLocate /\ [][NextLocate]_vars

-----------------------------------------------------------------------------
(* Currency coercion over bounded inputs *)

MaxLen == 4

RECURSIVE TextsUpTo(_, _)
TextsUpTo(n, chars) ==
    IF n = 0 THEN {<<>>}
    ELSE LET shorter == TextsUpTo(n - 1, chars)
         IN  shorter \cup {Append(t, c) : t \in shorter, c \in chars}

FloatChars == {"0", "1", "5", ".", ",", " ", "-", "a"}
FloatLiterals ==
    {<<"1", ".", "2", "3", "4", ",", "5", "6">>, <<"a", "b", "c">>, NoneText,
     <<" ", "N", "o", "n", "e", " ">>, <<"1", "2", "3", "4", ".", "5", "6">>}
FloatInputs ==
    {Str(t) : t \in TextsUpTo(MaxLen, FloatChars) \cup FloatLiterals}
    \cup {NoneV, Dict(<<<<"a", Str(<<"1">>)>>>>), List(<<Str(<<"1">>), Str(<<"1">>)>>)}
    \cup {Num(m, e) : m \in {-15, 0, 1, 5, 123456}, e \in {0, 2}}

InitFloat ==
    /\ pc = "call"
    /\ value \in FloatInputs
    /\ result = NoneV
    /\ IdleSession
    /\ IdleSearch /\ IdleExtract /\ IdleBatch
    /\ IdleCoerce /\ IdleTransform

SafeFloat ==
    /\ pc = "call"
    /\ result' = safe_float(value)
    /\ pc' = "done"
    /\ UNCHANGED <<data, keys, context, key_path, value, xml_dict, extracted_data,
                   xml_files, idx, all_data, df, again, args,
                   df_processed, processing_complete>>

NextFloat == SafeFloat

SpecFloat == InitFloat /\ [][NextFloat]_vars

-----------------------------------------------------------------------------
(* The two coercers applied once and again: safe_float to numbers,        *)
(* parse_date to texts put together from a date, a time and a suffix.      *)

YearTexts == {<<"2", "0", "2", "4">>, <<"0", "9", "0", "0">>, <<"0", "0", "0", "0">>}
MonthTexts == {<<"0", "3">>, <<"2">>, <<"1", "3">>}
DayTexts == {<<"1", "5">>, <<"2", "9">>, <<"3", "1">>, <<"3">>}
DatePartTexts ==
    UNION {{y \o <<"-">> \o m \o <<"-">> \o d, d \o <<"/">> \o m \o <<"/">> \o y, y \o m \o d} :
              y \in YearTexts, m \in MonthTexts, d \in DayTexts}
ClockTexts ==
    {<<"1", "0", ":", "0", "0", ":", "0", "0">>, <<"9", ":", "5", ":", "7">>,
     <<"2", "4", ":", "0", "0", ":", "0", "0">>, <<"2", "3", ":", "5", "9", ":", "6", "0">>}
TimePartTexts == {<<>>} \cup {<<sep>> \o c : sep \in {"T", " "}, c \in ClockTexts}
SuffixTexts ==
    {<<>>, <<"-", "0", "3", ":", "0", "0">>, <<"+", "0", "1", ":", "0", "0">>, <<"Z">>,
     <<"-", "0", "2", ":", "0", "0">>, <<"-", "0", "3", ":", "0", "0", "Z">>, <<"+">>, <<" ">>}
DateTexts ==
    {d \o t \o x : d \in DatePartTexts, t \in TimePartTexts, x \in SuffixTexts}
    \cup {EmptyText, NoneText, <<"a", "b", "c">>, <<" ", "1", "5", "/", "0", "3", "/", "2", "0", "2", "4">>}
CoerceNumbers == {Num(m, e) : m \in {-15, 0, 1, 5, 123456}, e \in {0, 1, 2}}

InitCoerce ==
    /\ pc = "call"
    /\ value \in CoerceNumbers \cup {Str(t) : t \in DateTexts} \cup {NoneV}
    /\ result = NoneV
    /\ again = NoneV
    /\ IdleSession
    /\ IdleSearch /\ IdleExtract /\ IdleBatch /\ IdleTransform

\* safe_float(value), value a number
CoerceCurrency ==
    /\ pc = "call" /\ IsNum(value)
    /\ result' = safe_float(value)
    /\ pc' = "once"
    /\ UNCHANGED <<data, keys, context, key_path, value, xml_dict, extracted_data,
                   xml_files, idx, all_data, df, again, args,
                   df_processed, processing_complete>>

\* safe_float(safe_float(value))
CoerceCurrencyAgain ==
    /\ pc = "once" /\ IsNum(value)
    /\ again' = safe_float(result)
    /\ pc' = "done"
    /\ UNCHANGED <<data, keys, context, key_path, value, result, xml_dict, extracted_data,
                   xml_files, idx, all_data, df, args,
                   df_processed, processing_complete>>

\* parse_date(value), value a text or None (line 52: not date_string)
CoerceDate ==
    /\ pc = "call" /\ ~IsNum(value)
    /\ result' = IF IsNone(value) THEN NoneV ELSE parse_date(value[2])
    /\ pc' = "once"
    /\ UNCHANGED <<data, keys, context, key_path, value, xml_dict, extracted_data,
                   xml_files, idx, all_data, df, again, args,
                   df_processed, processing_complete>>

\* parse_date(str(d)) of the datetime d the first call gave
CoerceDateAgain ==
    /\ pc = "once" /\ IsDate(result)
    /\ again' = parse_date(DateStr(result))
    /\ pc' = "done"
    /\ UNCHANGED <<data, keys, context, key_path, value, result, xml_dict, extracted_data,
                   xml_files, idx, all_data, df, args,
                   df_processed, processing_complete>>

NextCoerce == CoerceCurrency \/ CoerceCurrencyAgain \/ CoerceDate \/ CoerceDateAgain

SpecCoerce == InitCoerce /\ [][NextCoerce]_vars

-----------------------------------------------------------------------------
(* Document numbers: up to MaxDigits digits, bare or with punctuation,     *)
(* blanks and letters among them.                                          *)

MaxDigits == 15

DigitRuns ==
    {<<"1", "2", "3", "4", "5", "6", "7", "8", "0", "0", "0", "1", "9", "5", "0", "7">>,
     <<"5", "2", "9", "9", "8", "2", "2", "4", "7", "2", "5", "0", "0", "0", "0", "0">>,
     <<"0", "0", "0", "0", "0", "0", "0", "0", "0", "0", "0", "0", "0", "0", "0", "0">>}
DigitTexts == {SubSeq(run, 1, n) : run \in DigitRuns, n \in 0..MaxDigits}

RECURSIVE Interleave(_, _, _)
\* sep after every k characters of t
Interleave(t, sep, k) ==
    IF Len(t) <= k THEN t
    ELSE SubSeq(t, 1, k) \o <<sep>> \o Interleave(SubSeq(t, k + 1, Len(t)), sep, k)

DocumentTexts ==
    UNION {{t, Interleave(t, ".", 3), Interleave(t, "/", 4), <<" ">> \o t \o <<" ">>,
            <<"a">> \o Interleave(t, "-", 2), _format_document(Str(t))[2]} : t \in DigitTexts}
    \cup {NoneText, <<" ", "N", "o", "n", "e">>}

InitDocument ==
    /\ pc = "call"
    /\ value \in {Str(t) : t \in DocumentTexts} \cup {NoneV}
    /\ result = NoneV
    /\ IdleSession
    /\ IdleSearch /\ IdleExtract /\ IdleBatch /\ IdleCoerce /\ IdleTransform

FormatDocument ==
    /\ pc = "call"
    /\ result' = _format_document(value)
    /\ pc' = "done"
    /\ UNCHANGED <<data, keys, context, key_path, value, xml_dict, extracted_data,
                   xml_files, idx, all_data, df, again, args,
                   df_processed, processing_complete>>

NextDocument == FormatDocument

SpecDocument == InitDocument /\ [][NextDocument]_vars

-----------------------------------------------------------------------------
(* The transforms, each called once on a table of up to MaxRows rows.      *)

MaxRows == 3

ColNome == <<"N", "o", "m", "e">>
ColValor == <<"V", "a", "l", "o", "r">>
ColData == <<"D", "a", "t", "a">>
ColAbsent == <<"x">>

RECURSIVE RowSeqs(_, _)
\* the sequences of up to n rows
RowSeqs(n, rows) ==
    IF n = 0 THEN {<<>>}
    ELSE LET shorter == RowSeqs(n - 1, rows)
         IN  shorter \cup {Append(t, row) : t \in shorter, row \in rows}

NomeCells == {Str(<<"A">>), Str(<<"B">>), NoneV}
ValorCells == {Num(12, 0), NoneV}

DedupTables ==
    {RangeFrame(<<ColNome, ColValor>>, rows) :
        rows \in RowSeqs(MaxRows, {<<n, v>> : n \in NomeCells, v \in ValorCells})}
DedupSubsets ==
    {NoneV, List(<<ColNome>>), List(<<ColValor>>), List(<<ColNome, ColValor>>),
     List(<<ColValor, ColNome>>), List(<<ColNome, ColAbsent>>)}

InitTransform ==
    /\ pc = "call"
    /\ df = NoneV
    /\ args = <<>>
    /\ result = NoneV
    /\ again = NoneV
    /\ IdleSession
    /\ IdleSearch /\ IdleFloat /\ IdleExtract
    /\ xml_files = <<>> /\ idx = 0 /\ all_data = <<>>

RemoveDuplicates ==
    /\ pc = "call"
    /\ \E table \in DedupTables, subset \in DedupSubsets :
          /\ df' = table
          /\ args' = <<"remove_duplicates", subset>>
          /\ result' = remove_duplicates(table, subset)
    /\ pc' = "done"
    /\ UNCHANGED <<data, keys, context, key_path, value, xml_dict, extracted_data,
                   xml_files, idx, all_data, again,
                   df_processed, processing_complete>>

\* remove_duplicates applied to the table it returned
RemoveDuplicatesAgain ==
    /\ pc = "done" /\ args[1] = "remove_duplicates"
    /\ again' = remove_duplicates(result, args[2])
    /\ pc' = "twice"
    /\ UNCHANGED <<data, keys, context, key_path, value, result, xml_dict, extracted_data,
                   xml_files, idx, all_data, df, args,
                   df_processed, processing_complete>>

DataCells ==
    {Date(<<2024, 3, 15, 10, 0, 0>>), Date(<<2024, 3, 16, 0, 0, 0>>),
     Str(<<"2", "0", "2", "4", "-", "0", "3", "-", "1", "4">>), Str(<<"x">>), NoneV}
DateTables ==
    {RangeFrame(<<ColNome, ColData>>, rows) :
        rows \in RowSeqs(MaxRows, {<<Str(<<"A">>), d>> : d \in DataCells})}
DateBounds ==
    {NoneV, Str(EmptyText), Str(<<"x">>), Str(<<"2", "0", "2", "4", "-", "0", "3", "-", "1", "5">>), Date(<<2024, 3, 15, 10, 0, 0>>),
     Date(<<2024, 3, 16, 0, 0, 0>>)}
UpperDateBounds == {NoneV, Str(<<"x">>), Date(<<2024, 3, 15, 10, 0, 0>>)}

FilterByDateRange ==
    /\ pc = "call"
    /\ \E table \in DateTables, date_column \in {ColData, ColAbsent},
          start_date \in DateBounds, end_date \in UpperDateBounds :
          /\ df' = table
          /\ args' = <<"filter_by_date_range", date_column, start_date, end_date>>
          /\ result' = filter_by_date_range(table, date_column, start_date, end_date)
    /\ pc' = "done"
    /\ UNCHANGED <<data, keys, context, key_path, value, xml_dict, extracted_data,
                   xml_files, idx, all_data, again,
                   df_processed, processing_complete>>

ValueTables ==
    {RangeFrame(<<ColNome, ColValor>>, rows) :
        rows \in RowSeqs(MaxRows, {<<Str(<<"A">>), v>> :
                    v \in {Num(12, 0), Num(245, 1), Str(<<"1", "2">>), Str(<<"x">>), NoneV}})}
ValueBounds == {NoneV, Num(0, 0), Num(12, 0), Num(245, 1), Str(<<"x">>)}
UpperValueBounds == {NoneV, Num(12, 0), Str(<<"x">>)}

FilterByValueRange ==
    /\ pc = "call"
    /\ \E table \in ValueTables, value_column \in {ColValor, ColAbsent},
          min_value \in ValueBounds, max_value \in UpperValueBounds :
          /\ df' = table
          /\ args' = <<"filter_by_value_range", value_column, min_value, max_value>>
          /\ result' = filter_by_value_range(table, value_column, min_value, max_value)
    /\ pc' = "done"
    /\ UNCHANGED <<data, keys, context, key_path, value, xml_dict, extracted_data,
                   xml_files, idx, all_data, again,
                   df_processed, processing_complete>>

TextTables ==
    {RangeFrame(<<ColNome, ColValor>>, rows) :
        rows \in RowSeqs(MaxRows, {<<n, Num(12, 0)>> :
                    n \in {Str(<<"a">>), Str(<<"A", "b">>), Str(<<"b", ".">>), NoneV}})}
SearchTexts ==
    {NoneV, Num(5, 0)}
    \cup {Str(t) : t \in {EmptyText, <<"a">>, <<"A">>, <<"b">>, <<"a", "b">>, <<"n">>, <<".">>,
                          <<"b", ".">>, <<"(">>}}

FilterByText ==
    /\ pc = "call"
    /\ \E table \in TextTables, column \in {ColNome, ColAbsent},
          search_text \in SearchTexts, case_sensitive \in BOOLEAN :
          /\ df' = table
          /\ args' = <<"filter_by_text", column, search_text, case_sensitive>>
          /\ result' = filter_by_text(table, column, search_text, case_sensitive)
    /\ pc' = "done"
    /\ UNCHANGED <<data, keys, context, key_path, value, xml_dict, extracted_data,
                   xml_files, idx, all_data, again,
                   df_processed, processing_complete>>

FillRows ==
    {<<Str(<<"A">>), Num(12, 0)>>, <<Str(<<"A">>), Num(36, 0)>>, <<Str(<<"A">>), NoneV>>,
     <<Str(NoneText), Num(12, 0)>>, <<Str(noneText), Num(36, 0)>>, <<Str(NONEText), NoneV>>,
     <<NoneV, Num(12, 0)>>, <<NoneV, NoneV>>}
FillTables == {RangeFrame(<<ColNome, ColValor>>, rows) : rows \in RowSeqs(MaxRows, FillRows)}
Strategies == {"empty", "zero", "mean", "forward", "other"}

FillMissingValues ==
    /\ pc = "call"
    /\ \E table \in FillTables, strategy \in Strategies :
          /\ df' = table
          /\ args' = <<"fill_missing_values", strategy>>
          /\ result' = fill_missing_values(table, strategy)
    /\ pc' = "done"
    /\ UNCHANGED <<data, keys, context, key_path, value, xml_dict, extracted_data,
                   xml_files, idx, all_data, again,
                   df_processed, processing_complete>>

NextTransform ==
    \/ RemoveDuplicates \/ RemoveDuplicatesAgain
    \/ FilterByDateRange \/ FilterByValueRange \/ FilterByText
    \/ FillMissingValues

SpecTransform == InitTransform /\ [][NextTransform]_vars

-----------------------------------------------------------------------------
(* Field extraction over a family of documents: the root holds up to      *)
(* MaxParts entries, each an issuer or recipient element (at the root or   *)
(* inside a wrapper element) or a scalar field.                            *)

MaxParts == 2

EntityBodies ==
    {Dict(<< <<"xNome", n>> >>) : n \in {Str(<<"A">>), Str(<<"B">>), Str(NoneText), NoneV}}
    \cup {Dict(<< <<"r", Dict(<< <<"xNome", Str(<<"B">>)>> >>)>> >>),
          Dict(<< <<"CNPJ", Str(<<"1">>)>> >>)}
EntityParts == {<<e, body>> : e \in {"emit", "dest"}, body \in EntityBodies}
WrappedParts ==
    {<<"w", Dict(<<part>>)>> : part \in EntityParts}
    \cup {<<"infNFe", Dict(<< <<e, Dict(<< <<"xNome", Str(<<"A">>)>> >>)>> >>)>> : e \in {"emit", "dest"}}
ScalarParts ==
    {<<"nNF", Str(<<"7">>)>>, <<"numero", Str(<<"8">>)>>,
     <<"vNF", Str(<<"1", ",", "5">>)>>, <<"vNF", Str(<<"a", "b", "c">>)>>,
     <<"dhEmi", Str(<<"2", "0", "2", "4", "-", "0", "3", "-", "1", "5">>)>>,
     <<"dhEmi", Str(<<"x">>)>>}
DocParts == EntityParts \cup WrappedParts \cup ScalarParts

RECURSIVE PartSeqs(_)
\* the sequences of exactly n parts with distinct keys
PartSeqs(n) ==
    IF n = 0 THEN {<<>>}
    ELSE {Append(es, part) : es \in PartSeqs(n - 1),
                             part \in DocParts}

DistinctKeys(es) == \A i, j \in 1..Len(es) : i # j => es[i][1] # es[j][1]

ExtractDocs ==
    {Dict(es) : es \in {x \in UNION {PartSeqs(n) : n \in 1..MaxParts} : DistinctKeys(x)}}

InitExtract ==
    /\ pc = "call"
    /\ xml_dict \in ExtractDocs
    /\ extracted_data = <<>>
    /\ result = NoneV
    /\ IdleSession
    /\ IdleSearch /\ IdleFloat /\ IdleBatch
    /\ IdleCoerce /\ IdleTransform

Extract ==
    /\ pc = "call"
    /\ extracted_data' = _extract_fields_enhanced(xml_dict)
    /\ pc' = "done"
    /\ UNCHANGED <<data, keys, context, key_path, value, result, xml_dict,
                   xml_files, idx, all_data, df, again, args,
                   df_processed, processing_complete>>

NextExtract == Extract

SpecExtract == InitExtract /\ [][NextExtract]_vars

-----------------------------------------------------------------------------
(* Archives of up to MaxMembers members *)

MaxMembers == 3

MemberNames ==
    { <<"a", ".", "x", "m", "l">>, <<"b", ".", "X", "M", "L">>, <<"a", ".", "t", "x", "t">>,
      <<"d", "/">>, <<"d", "/", "a", ".", "x", "m", "l">>, <<"d", "/", "e", "/", "c", ".", "x", "m", "l">>,
      <<".", "h", ".", "x", "m", "l">>, <<"d", "/", ".", "h", ".", "x", "m", "l">>,
      <<".", "g", "/", "a", ".", "x", "m", "l">> }

\* the content of a member is told apart by the member's path
Members ==
    {<<name, Str(name), TRUE>> : name \in MemberNames}
    \cup {<<<<"k", ".", "x", "m", "l">>, Str(<<"k">>), FALSE>>}

RECURSIVE MemberSeqs(_)
MemberSeqs(n) ==
    IF n = 0 THEN {<<>>}
    ELSE LET shorter == MemberSeqs(n - 1)
         IN  shorter \cup {Append(ms, m) : ms \in {x \in shorter : Len(x) = n - 1}, m \in Members}

Archives == {<<"bad", <<>>>>} \cup {<<"zip", ms>> : ms \in MemberSeqs(MaxMembers)}

InitZip ==
    /\ pc = "call"
    /\ args \in {<<"_extract_zip", zip_content>> : zip_content \in Archives}
    /\ result = NoneV
    /\ IdleSession
    /\ IdleSearch /\ IdleFloat /\ IdleExtract /\ IdleBatch /\ IdleCoerce

ExtractZip ==
    /\ pc = "call"
    /\ result' = List(_extract_zip(args[2]))
    /\ pc' = "done"
    /\ UNCHANGED <<data, keys, context, key_path, value, xml_dict, extracted_data,
                   xml_files, idx, all_data, df, again, args,
                   df_processed, processing_complete>>

NextZip == ExtractZip

SpecZip == InitZip /\ [][NextZip]_vars

-----------------------------------------------------------------------------
(* Batches of up to MaxDocs files *)

MaxDocs == 3

FileNames == {Str(<<"a">>), Str(<<"b">>)}
FileContents ==
    { <<"bad", <<>>>>,
      <<"xml", Dict(<< <<"nNF", Str(<<"7">>)>> >>)>>,
      <<"xml", Dict(<< <<"emit", Dict(<< <<"xNome", Str(<<"A">>)>> >>)>> >>)>> }
Times == {<<"date", <<2024, 3, 15, 10, 0, 0>>>>, <<"date", <<2024, 3, 15, 10, 0, 1>>>>}

RECURSIVE Batches(_)
Batches(n) ==
    IF n = 0 THEN {<<>>}
    ELSE LET shorter == Batches(n - 1)
         IN  shorter \cup {Append(b, <<f, c>>) : b \in shorter, f \in FileNames, c \in FileContents}

InitBatch ==
    /\ pc = "loop"
    /\ xml_files \in Batches(MaxDocs)
    /\ idx = 1
    /\ all_data = <<>>
    /\ df = NoneV
    /\ result = NoneV
    /\ IdleSession
    /\ IdleSearch /\ IdleFloat /\ IdleExtract
    /\ IdleCoerce /\ IdleTransform

\* lines 29-36: one turn of the loop
ParseNext ==
    /\ pc = "loop"
    /\ idx <= Len(xml_files)
    /\ all_data' = Collect(all_data, _parse_single_xml(xml_files[idx][1], xml_files[idx][2]))
    /\ idx' = idx + 1
    /\ UNCHANGED <<pc, data, keys, context, key_path, value, result, xml_dict,
                   extracted_data, xml_files, df, again, args,
                   df_processed, processing_complete>>

\* lines 38-49: after the loop
Finish ==
    /\ pc = "loop"
    /\ idx > Len(xml_files)
    /\ \E now \in Times : df' = BuildFrame(all_data, now)
    /\ pc' = "done"
    /\ UNCHANGED <<data, keys, context, key_path, value, result, xml_dict,
                   extracted_data, xml_files, idx, all_data, again, args,
                   df_processed, processing_complete>>

NextBatch == ParseNext \/ Finish

SpecBatch == InitBatch /\ [][NextBatch]_vars

-----------------------------------------------------------------------------
(* One run of process_files on a fresh session, and the download *)

NameA == Str(<<"a", ".", "x", "m", "l">>)
NameB == Str(<<"b", ".", "x", "m", "l">>)
NameZ == Str(<<"z", ".", "z", "i", "p">>)

\* an invoice with a number, an issuer, a total and a date of issue
DocFull ==
    <<"xml", Dict(<< <<"nNF", Str(<<"7">>)>>,
                     <<"emit", Dict(<< <<"xNome", Str(<<"A">>)>> >>)>>,
                     <<"vNF", Str(<<"1", ",", "5">>)>>,
                     <<"dhEmi", Str(<<"2", "0", "2", "4", "-", "0", "3", "-", "1", "5">>)>> >>)>>
\* the same number with another total
DocOtherTotal ==
    <<"xml", Dict(<< <<"nNF", Str(<<"7">>)>>, <<"vNF", Str(<<"2", ",", "5">>)>> >>)>>
\* a number and a date of issue no format reads
DocUnreadDate ==
    <<"xml", Dict(<< <<"nNF", Str(<<"8">>)>>, <<"dhEmi", Str(<<"x">>)>> >>)>>
\* a number element with a child element
DocNestedNumber ==
    <<"xml", Dict(<< <<"nNF", Dict(<< <<"x", Str(<<"A">>)>> >>)>> >>)>>
DocBad == <<"bad", <<>>>>

\* two members with the same file name in two folders, and a folder
ZipTwoFolders ==
    <<"zip", << <<<<"d", "/">>, Str(EmptyText), TRUE>>,
                <<<<"d", "/", "a", ".", "x", "m", "l">>, DocFull, TRUE>>,
                <<<<"e", "/", "a", ".", "x", "m", "l">>, DocFull, TRUE>> >> >>
ZipNoXml == <<"zip", << <<<<"d", "/">>, Str(EmptyText), TRUE>> >> >>

UploadedFiles ==
    { <<NameA, DocFull>>, <<NameB, DocFull>>, <<NameA, DocOtherTotal>>, <<NameB, DocUnreadDate>>,
      <<NameA, DocNestedNumber>>, <<NameA, DocBad>>,
      <<NameZ, ZipTwoFolders>>, <<NameZ, ZipNoXml>>, <<NameZ, DocBad>> }

\* what the uploader hands over: one file, or two files: the same file
\* twice, one document under two names, two documents under one name, two
\* different documents, and a document with a file that cannot be read
Uploads ==
    {<<f>> : f \in UploadedFiles}
    \cup { <<<<NameA, DocFull>>, <<NameA, DocFull>>>>, <<<<NameA, DocFull>>, <<NameB, DocFull>>>>,
           <<<<NameA, DocFull>>, <<NameA, DocOtherTotal>>>>,
           <<<<NameA, DocFull>>, <<NameB, DocUnreadDate>>>>,
           <<<<NameB, DocUnreadDate>>, <<NameA, DocFull>>>>,
           <<<<NameA, DocNestedNumber>>, <<NameA, DocNestedNumber>>>>,
           <<<<NameA, DocBad>>, <<NameB, DocFull>>>> }

\* format_dates and format_currency; line 455 reads their disjunction only
Formats == {<<FALSE, FALSE>>, <<TRUE, FALSE>>}

\* the checked fields, in the order of the mapping, one at least
Selections == {FieldNames, <<FieldNames[1]>>, <<FieldNames[2], FieldNames[4], FieldNames[7]>>}

\* pd.Timestamp.now() of the run
RunTimes == {Date(<<2024, 3, 15, 10, 0, 0>>)}

InitPipeline ==
    /\ pc = "call"
    /\ xml_files = <<>>
    /\ IdleSession
    /\ args = <<>>
    /\ result = NoneV
    /\ idx = 0 /\ all_data = <<>> /\ df = NoneV
    /\ IdleSearch /\ IdleFloat /\ IdleExtract /\ IdleCoerce

\* app.py lines 376-512
ProcessFiles ==
    /\ pc = "call"
    /\ \E uploaded_files \in Uploads, selected_columns \in Selections,
          dedup \in BOOLEAN, formats \in Formats, now \in RunTimes :
          LET session == process_files(<<xml_files, df_processed, processing_complete>>,
                                       uploaded_files, selected_columns, dedup,
                                       formats[1], formats[2], now)
          IN  /\ xml_files' = session[1]
              /\ df_processed' = session[2]
              /\ processing_complete' = session[3]
              /\ df' = session[4]
              /\ args' = <<"process_files", uploaded_files, selected_columns, dedup,
                           formats[1], formats[2], now>>
    /\ pc' = "done"
    /\ UNCHANGED <<data, keys, context, key_path, value, result, xml_dict, extracted_data,
                   idx, all_data, again>>

\* app.py lines 253-281: the download area builds the table for the exporter
Export ==
    /\ pc = "done"
    /\ processing_complete /\ ~IsNone(df_processed)
    /\ result' = ExportTable(df_processed)
    /\ pc' = "exported"
    /\ UNCHANGED <<data, keys, context, key_path, value, xml_dict, extracted_data,
                   xml_files, idx, all_data, df, again, args, df_processed, processing_complete>>

NextPipeline == ProcessFiles \/ Export

SpecPipeline == InitPipeline /\ [][NextPipeline]_vars

-----------------------------------------------------------------------------
(* Up to MaxRuns runs of process_files in one session *)

MaxRuns == 2

SessionUploads ==
    { <<<<NameA, DocFull>>>>, <<<<NameA, DocOtherTotal>>, <<NameB, DocUnreadDate>>>>,
      <<<<NameB, DocUnreadDate>>>>, <<<<NameZ, ZipTwoFolders>>>>,
      <<<<NameA, DocBad>>>>, <<<<NameZ, DocBad>>>> }

\* the settings of a run: the checked fields, remove_duplicates,
\* format_dates and format_currency
SessionSettings ==
    { <<<<FieldNames[1], FieldNames[2], FieldNames[7]>>, TRUE, TRUE, TRUE>>,
      <<<<FieldNames[1], FieldNames[7]>>, FALSE, FALSE, FALSE>> }

InitSession ==
    /\ pc = "session"
    /\ xml_files = <<>>
    /\ IdleSession
    /\ args = <<>>
    /\ result = NoneV
    /\ idx = 0 /\ all_data = <<>> /\ df = NoneV
    /\ IdleSearch /\ IdleFloat /\ IdleExtract /\ IdleCoerce

\* app.py lines 376-512, run idx + 1 of the session; again keeps the
\* session the run found
ProcessFilesAgain ==
    /\ pc = "session"
    /\ idx < MaxRuns
    /\ \E uploaded_files \in SessionUploads, settings \in SessionSettings, now \in RunTimes :
          LET session == process_files(<<xml_files, df_processed, processing_complete>>,
                                       uploaded_files, settings[1], settings[2],
                                       settings[3], settings[4], now)
          IN  /\ xml_files' = session[1]
              /\ df_processed' = session[2]
              /\ processing_complete' = session[3]
              /\ df' = session[4]
              /\ args' = <<"process_files", uploaded_files, settings[1], settings[2],
                           settings[3], settings[4], now>>
    /\ again' = <<xml_files, df_processed, processing_complete>>
    /\ idx' = idx + 1
    /\ UNCHANGED <<pc, data, keys, context, key_path, value, result, xml_dict, extracted_data,
                   all_data>>

NextSession == ProcessFilesAgain

SpecSession == InitSession /\ [][NextSession]_vars

-----------------------------------------------------------------------------
(* Where a key and its values sit in a tree (used to state the claims) *)

RECURSIVE OccursKey(_, _), ValuesOfKeys(_, _), FirstValueOfKey(_, _), FirstInEntries(_, _, _)

\* key names an entry somewhere in tree t
OccursKey(t, key) ==
    IF IsDict(t)
    THEN \E i \in 1..Len(t[2]) : t[2][i][1] = key \/ OccursKey(t[2][i][2], key)
    ELSE IF IsList(t) THEN \E i \in 1..Len(t[2]) : OccursKey(t[2][i], key)
    ELSE FALSE

\* the values of all entries of t, at any depth, whose key is in ks
ValuesOfKeys(t, ks) ==
    IF IsDict(t)
    THEN UNION {(IF t[2][i][1] \in ks THEN {t[2][i][2]} ELSE {})
                    \cup ValuesOfKeys(t[2][i][2], ks) : i \in 1..Len(t[2])}
    ELSE IF IsList(t) THEN UNION {ValuesOfKeys(t[2][i], ks) : i \in 1..Len(t[2])}
    ELSE {}

\* the subtrees rooted at the first occurrence of key, in document order
\* (a set with at most one element)
FirstInEntries(es, i, key) ==
    IF i > Len(es) THEN {}
    ELSE IF es[i][1] = key THEN {es[i][2]}
    ELSE LET below == FirstValueOfKey(es[i][2], key)
         IN  IF below # {} THEN below ELSE FirstInEntries(es, i + 1, key)

FirstValueOfKey(t, key) ==
    IF IsDict(t) THEN FirstInEntries(t[2], 1, key)
    ELSE IF IsList(t) THEN FirstInEntries([i \in 1..Len(t[2]) |-> <<"", t[2][i]>>], 1, key)
    ELSE {}

-----------------------------------------------------------------------------
(* C1: when no key named 'dest' occurs anywhere in the tree, the search  *)
(* for ['CNPJ'] with context 'dest' returns None, also when a CNPJ key   *)
(* exists under 'emit' or elsewhere.                                      *)
C1_AbsentWhenNoContext ==
    (pc = "done" /\ context = "dest" /\ keys = <<"CNPJ">> /\ ~OccursKey(data, "dest"))
        => IsNone(result)

(* C2: when the context key occurs in the tree, the search returns None  *)
(* or the value of a searched key located inside the subtree rooted at   *)
(* the first occurrence of the context key; it never returns a value     *)
(* from outside that subtree.                                             *)
C2_StrictContainment ==
    (pc = "done" /\ context # "" /\ OccursKey(data, context))
        => \A sub \in FirstValueOfKey(data, context) :
              \/ IsNone(result)
              \/ result \in ValuesOfKeys(sub, Range(keys))

RECURSIVE ValueAt(_, _)
\* the values found by descending one map level per segment of path (a set
\* with at most one element; empty when a segment is missing or the node
\* reached is not a map)
ValueAt(t, path) ==
    IF path = <<>> THEN {t}
    ELSE IF ~IsDict(t) THEN {}
    ELSE UNION {ValueAt(t[2][i][2], Tail(path)) :
                    i \in {j \in 1..Len(t[2]) : t[2][j][1] = Head(path)}}

(* C4 (as stated): a path whose value is "", "None", "none" or "NONE"    *)
(* yields None, as a missing key does.                                    *)
C4_AllNoneTextsAbsent ==
    (pc = "done" /\ \E x \in ValueAt(data, key_path) :
                        IsStr(x) /\ x[2] \in {EmptyText, NoneText, noneText, NONEText})
        => IsNone(result)

(* C4 (amended): a path whose value is "" or the exact text "None" yields *)
(* None, as a path with a missing key does; the texts "none" and "NONE"   *)
(* are returned as they are.                                              *)
C4_AbsentNormalization ==
    pc = "done" =>
        /\ ValueAt(data, key_path) = {} => IsNone(result)
        /\ \A x \in ValueAt(data, key_path) :
              /\ (IsStr(x) /\ x[2] \in {EmptyText, NoneText}) => IsNone(result)
              /\ (IsStr(x) /\ x[2] \in {noneText, NONEText}) => result = x

C4_Witness ==
    /\ pc = "done"
    /\ key_path = <<"emit", "CNPJ">>
    /\ ValueAt(data, key_path) = {Str(NoneText)}
    /\ IsNone(result)

(* C10: safe_float returns a number unchanged; for a text it strips the    *)
(* surrounding whitespace, removes every '.', replaces ',' by '.' and       *)
(* parses what is left ("1.234,56" gives 1234.56); every input that cannot  *)
(* be parsed this way ("abc", None, "None", a map, a list) gives 0.0, and   *)
(* no exception leaves the call.                                            *)
C10_CurrencyCoercion ==
    pc = "done" =>
        /\ ~IsRaised(result)
        /\ IsNum(value) => result = value
        /\ IsStr(value) =>
              LET parsed == PyFloatText(Replace(Remove(Strip(value[2]), "."), ",", "."))
              IN  result = IF IsRaised(parsed) THEN Num(0, 0) ELSE parsed
        /\ (~IsNum(value) /\ ~IsStr(value)) => result = Num(0, 0)
        /\ value = Str(<<"1", ".", "2", "3", "4", ",", "5", "6">>) => result = Num(123456, 2)
        /\ value \in {Str(<<"a", "b", "c">>), Str(NoneText), NoneV} => result = Num(0, 0)

C10_Witness ==
    /\ pc = "done"
    /\ value = Str(<<"1", ".", "2", "3", "4", ",", "5", "6">>)
    /\ result = Num(123456, 2)

\* t writes an amount with one decimal separator c: digits, c, digits
IsDecimalWith(t, c) ==
    /\ Cardinality({i \in 1..Len(t) : t[i] = c}) = 1
    /\ \A i \in 1..Len(t) : IsDigit(t[i]) \/ t[i] = c
    /\ IsDigit(t[1]) /\ IsDigit(t[Len(t)])

\* the amount such a text denotes
AmountWith(t, c) ==
    Normalize(NatOf(Remove(t, c)), Len(t) - (CHOOSE i \in 1..Len(t) : t[i] = c))

(* C11: for every text that writes an amount with a period as decimal      *)
(* separator ("1.5", "1234.56") or with a comma as decimal separator        *)
(* ("1,5"), safe_float returns the amount the text denotes.                 *)
C11_EitherDecimalSeparator ==
    (pc = "done" /\ IsStr(value) /\ value[2] # <<>>) =>
        /\ IsDecimalWith(value[2], ",") => result = AmountWith(value[2], ",")
        /\ IsDecimalWith(value[2], ".") => result = AmountWith(value[2], ".")

(* C12: for every number x, safe_float(x) = x and safe_float applied to    *)
(* that result returns it again; for every datetime d that parse_date      *)
(* produces, parse_date applied to the text str(d) returns d.              *)
C12_CoercionIdempotent ==
    /\ (pc \in {"once", "done"} /\ IsNum(value)) => result = value
    /\ (pc = "done" /\ IsNum(value)) => again = result
    /\ (pc = "done" /\ IsDate(result)) => again = result

\* a date written day first, read again from its canonical text
C12_Witness ==
    /\ pc = "done"
    /\ value = Str(<<"2", "9", "/", "2", "/", "2", "0", "2", "4", " ", "9", ":", "5", ":", "7">>)
    /\ result = Date(<<2024, 2, 29, 9, 5, 7>>)
    /\ again = result

\* t without a trailing UTC offset of the form -03:00 or +HH:MM
EndsWithOffset(t) ==
    /\ Len(t) >= 6
    /\ LET o == SubSeq(t, Len(t) - 5, Len(t))
       IN  \/ o = <<"-", "0", "3", ":", "0", "0">>
           \/ /\ o[1] = "+" /\ o[4] = ":"
              /\ IsDigit(o[2]) /\ IsDigit(o[3]) /\ IsDigit(o[5]) /\ IsDigit(o[6])
WithoutTrailingOffset(t) == IF EndsWithOffset(t) THEN SubSeq(t, 1, Len(t) - 6) ELSE t

(* C13 (as stated): parse_date strips a trailing UTC offset of the form   *)
(* -03:00 or +HH:MM without shifting the time, then returns the datetime   *)
(* of the first format, in the fixed order, that matches the whole         *)
(* remaining text (surrounding whitespace aside); when no format matches,  *)
(* or the input is empty or None, it returns None; it never raises.        *)
C13_TrailingOffsetOnly ==
    (pc \in {"once", "done"} /\ ~IsNum(value)) =>
        /\ ~IsRaised(result)
        /\ (IsNone(value) \/ value = Str(EmptyText)) => IsNone(result)
        /\ value = Str(<<"2", "0", "2", "4", "-", "0", "3", "-", "1", "5", "T", "1", "0", ":",
                         "0", "0", ":", "0", "0", "-", "0", "3", ":", "0", "0">>)
              => result = Date(<<2024, 3, 15, 10, 0, 0>>)
        /\ (IsStr(value) /\ value[2] # EmptyText) =>
              result = TryFormats(Strip(WithoutTrailingOffset(Strip(value[2]))), 1)

\* the text parse_date hands to strptime: cut at the first -03:00, then at
\* the first +, then stripped
CutOffset(t) == Strip(BeforeFirst(BeforeFirst(t, <<"-", "0", "3", ":", "0", "0">>), <<"+">>))

(* C13 (amended): parse_date cuts the text at the first -03:00 and then at *)
(* the first +, whatever follows them, without shifting the time, strips   *)
(* the surrounding whitespace, and returns the datetime of the first       *)
(* format, in the fixed order, that matches the whole remaining text; an   *)
(* offset of another form (-02:00) is not cut; when no format matches, or  *)
(* the input is empty or None, it returns None; it never raises.           *)
C13_DateCoercion ==
    (pc \in {"once", "done"} /\ ~IsNum(value)) =>
        /\ ~IsRaised(result)
        /\ (IsNone(value) \/ value = Str(EmptyText)) => IsNone(result)
        /\ (IsStr(value) /\ value[2] # EmptyText) => result = TryFormats(CutOffset(value[2]), 1)
        /\ IsDate(result) =>
              \E i \in 1..Len(DateFormats) :
                  /\ Strptime(CutOffset(value[2]), DateFormats[i]) = result
                  /\ \A j \in 1..(i - 1) : IsRaised(Strptime(CutOffset(value[2]), DateFormats[j]))
        /\ (IsStr(value) /\ IsNone(result)) =>
              \A i \in 1..Len(DateFormats) : IsRaised(Strptime(CutOffset(value[2]), DateFormats[i]))
        /\ value \in {Str(<<"2", "0", "2", "4", "-", "0", "3", "-", "1", "5", "T", "1", "0", ":", "0", "0", ":", "0", "0", "-", "0", "3", ":", "0", "0">>), Str(<<"2", "0", "2", "4", "-", "0", "3", "-", "1", "5", "T", "1", "0", ":", "0", "0", ":", "0", "0", "+", "0", "1", ":", "0", "0">>), Str(<<"2", "0", "2", "4", "-", "0", "3", "-", "1", "5", "T", "1", "0", ":", "0", "0", ":", "0", "0", "-", "0", "3", ":", "0", "0", "Z">>)}
              => result = Date(<<2024, 3, 15, 10, 0, 0>>)
        /\ value = Str(<<"2", "0", "2", "4", "-", "0", "3", "-", "1", "5", "T", "1", "0", ":", "0", "0", ":", "0", "0", "-", "0", "2", ":", "0", "0">>) => IsNone(result)

\* the offset -03:00 cut and the time kept
C13_Witness ==
    /\ pc = "once"
    /\ value = Str(<<"2", "0", "2", "4", "-", "0", "3", "-", "1", "5", "T", "1", "0", ":", "0", "0", ":", "0", "0", "-", "0", "3", ":", "0", "0">>)
    /\ result = Date(<<2024, 3, 15, 10, 0, 0>>)

\* the characters of t at the positions at
CharsAt(t, at) == [i \in 1..Len(at) |-> t[at[i]]]

(* C14: _format_document removes every character of its input that is no  *)
(* digit; 14 digits come back as NN.NNN.NNN/NNNN-NN ("12345678000195"      *)
(* gives "12.345.678/0001-95"), 11 digits as NNN.NNN.NNN-NN, any other     *)
(* number of digits as the bare digits; the digits themselves are not      *)
(* checked.                                                                *)
C14_DocumentFormat ==
    (pc = "done" /\ IsStr(value)) =>
        LET ds == SelectSeq(value[2], IsDigit)
        IN  /\ IsStr(result)
            /\ SelectSeq(result[2], IsDigit) = ds
            /\ Len(ds) = 14 =>
                  /\ Len(result[2]) = 18
                  /\ CharsAt(result[2], <<3, 7, 11, 16>>) = <<".", ".", "/", "-">>
            /\ Len(ds) = 11 =>
                  /\ Len(result[2]) = 14
                  /\ CharsAt(result[2], <<4, 8, 12>>) = <<".", ".", "-">>
            /\ Len(ds) \notin {11, 14} => result[2] = ds
            /\ value = Str(<<"1", "2", "3", "4", "5", "6", "7", "8", "0", "0", "0", "1", "9", "5">>) => result = Str(<<"1", "2", ".", "3", "4", "5", ".", "6", "7", "8", "/", "0", "0", "0", "1", "-", "9", "5">>)

\* fourteen digits given with other punctuation
C14_Witness ==
    /\ pc = "done"
    /\ value = Str(<<"1", "2", "3", ".", "4", "5", "6", ".", "7", "8", "0", ".", "0", "0", "1", ".", "9", "5">>)
    /\ result = Str(<<"1", "2", ".", "3", "4", "5", ".", "6", "7", "8", "/", "0", "0", "0", "1", "-", "9", "5">>)

-----------------------------------------------------------------------------
(* Statements about the extracted record *)

\* the values a record stores under a field name
Stored(rec, name) == {rec[i][2] : i \in {j \in 1..Len(rec) : rec[j][1] = name}}

\* path leads to a value that is neither None nor "" nor "None"
Resolves(xml, path) ==
    \E x \in ValueAt(xml, path) :
        ~IsNone(x) /\ ~(IsStr(x) /\ x[2] \in {EmptyText, NoneText})

\* the values of the keys ks found inside the subtrees of the elements
\* named entity
ValuesUnder(xml, entity, ks) ==
    UNION {ValuesOfKeys(sub, ks) : sub \in ValuesOfKeys(xml, {entity})}

\* the fields of an issuer or a recipient: <<index in the mapping, own
\* element, searched keys>>
EntityFields ==
    { <<3, "emit", {"CNPJ"}>>, <<4, "emit", {"xNome", "nome"}>>,
      <<5, "dest", {"CNPJ"}>>, <<6, "dest", {"xNome", "nome"}>> }

(* C3: when no candidate path of an issuer (recipient) field resolves but *)
(* one of its keys is nested under 'emit' ('dest'), the record stores a   *)
(* value found under that element, never one found only under the other   *)
(* element, wherever the two elements are placed.                          *)
C3_NoCrossContamination ==
    pc = "done" =>
        \A f \in EntityFields :
            LET name == FieldMapping[f[1]][1]
                paths == FieldMapping[f[1]][2]
            IN  (/\ \A j \in 1..Len(paths) : ~Resolves(xml_dict, paths[j])
                 /\ ValuesUnder(xml_dict, f[2], f[3]) # {})
                    => Stored(extracted_data, name) \subseteq ValuesUnder(xml_dict, f[2], f[3])

(* C5: for every field with a candidate path that resolves, the record    *)
(* stores the (converted) value of the first such path in listed order;   *)
(* the keyword search never replaces it.                                   *)
C5_PathPrecedence ==
    pc = "done" =>
        \A i \in 1..Len(FieldMapping) :
            LET name == FieldMapping[i][1]
                paths == FieldMapping[i][2]
                hits == {j \in 1..Len(paths) : Resolves(xml_dict, paths[j])}
            IN  hits # {} =>
                    LET first == CHOOSE j \in hits : \A h \in hits : j <= h
                    IN  Stored(extracted_data, name) =
                            {Coerce(name, x) : x \in ValueAt(xml_dict, paths[first])}

\* 'numero' and 'nNF' both resolve and differ; 'nNF' is listed first
C5_Witness ==
    /\ pc = "done"
    /\ ValueAt(xml_dict, <<"numero">>) = {Str(<<"8">>)}
    /\ ValueAt(xml_dict, <<"nNF">>) = {Str(<<"7">>)}
    /\ xml_dict[2][1][1] = "numero"
    /\ Stored(extracted_data, FieldMapping[1][1]) = {Str(<<"7">>)}

(* C6: the record has one key per field of the mapping, in mapping order, *)
(* whatever the document holds; a field that no candidate path resolves   *)
(* and whose fallback keys occur nowhere in the document is None.         *)
C6_FixedKeySet ==
    pc = "done" =>
        /\ [i \in 1..Len(extracted_data) |-> extracted_data[i][1]] = FieldNames
        /\ \A i \in 1..Len(FieldMapping) :
              LET name == FieldMapping[i][1]
                  paths == FieldMapping[i][2]
                  rule == FallbackRule(name)
              IN  (/\ \A j \in 1..Len(paths) : ~Resolves(xml_dict, paths[j])
                   /\ rule # <<>> => \A key \in Range(rule[1]) : ~OccursKey(xml_dict, key))
                      => Stored(extracted_data, name) = {NoneV}

\* a document with a note number and nothing else: one field found, the
\* others stored as None
C6_Witness ==
    /\ pc = "done"
    /\ xml_dict = Dict(<< <<"nNF", Str(<<"7">>)>> >>)
    /\ Stored(extracted_data, FieldMapping[1][1]) = {Str(<<"7">>)}
    /\ \A i \in 2..Len(FieldMapping) : Stored(extracted_data, FieldMapping[i][1]) = {NoneV}

\* the fields the extraction coerces, by name (lines 135 and 141)
IsCurrencyField(name) == Contains(Lower(name), W_valor) \/ Contains(Lower(name), W_total)
IsDateField(name) == ~IsCurrencyField(name) /\ Contains(Lower(name), W_data)

\* the value the candidate paths or the fallback resolve field i to
Resolved(xml, i) ==
    WithFallback(xml, FieldMapping[i][1], FirstPathValue(xml, FieldMapping[i][2], 1))

(* C15 (as stated): a currency field that resolves to a value that is no  *)
(* number is stored as 0.0, and a date field that resolves to a value that *)
(* matches no date format is stored as None.                               *)
C15_DefaultsOnFailure ==
    pc = "done" =>
        \A i \in 1..Len(FieldMapping) :
            LET name == FieldMapping[i][1]
            IN  /\ IsCurrencyField(name) =>
                      \A x \in Stored(extracted_data, name) : IsNone(x) \/ IsNum(x)
                /\ IsDateField(name) =>
                      \A x \in Stored(extracted_data, name) : IsNone(x) \/ IsDate(x)

(* C15 (amended): a currency field that resolves to a value that is no    *)
(* number is stored as 0.0; a date field that resolves to a value that     *)
(* matches no date format is stored as that value, unchanged; nothing      *)
(* raised by a conversion leaves _extract_fields_enhanced.                 *)
C15_CoercionFailure ==
    pc = "done" =>
        \A i \in 1..Len(FieldMapping) :
            LET name == FieldMapping[i][1]
                raw == Resolved(xml_dict, i)
            IN  /\ \A x \in Stored(extracted_data, name) : ~IsRaised(x)
                /\ (IsCurrencyField(name) /\ IsFound(raw)) =>
                      /\ \A x \in Stored(extracted_data, name) : IsNum(x)
                      /\ (~IsStr(raw) \/ IsRaised(PyFloatText(Replace(Remove(Strip(raw[2]), "."), ",", "."))))
                            => Stored(extracted_data, name) = {Num(0, 0)}
                /\ (IsDateField(name) /\ IsFound(raw)) =>
                      IF IsNone(parse_date(PyStr(raw)))
                      THEN Stored(extracted_data, name) = {raw}
                      ELSE \A x \in Stored(extracted_data, name) : IsDate(x)

\* a document whose total and whose date of issue are both unreadable
C15_Witness ==
    /\ pc = "done"
    /\ xml_dict = Dict(<< <<"vNF", Str(<<"a", "b", "c">>)>>, <<"dhEmi", Str(<<"x">>)>> >>)
    /\ \E i \in 1..Len(FieldMapping) :
          /\ IsCurrencyField(FieldMapping[i][1])
          /\ Resolved(xml_dict, i) = Str(<<"a", "b", "c">>)
          /\ Stored(extracted_data, FieldMapping[i][1]) = {Num(0, 0)}
    /\ \E i \in 1..Len(FieldMapping) :
          /\ IsDateField(FieldMapping[i][1])
          /\ Stored(extracted_data, FieldMapping[i][1]) = {Str(<<"x">>)}

-----------------------------------------------------------------------------
(* Statements about the batch *)

WellFormed(file) == file[2][1] = "xml"
\* the well-formed files among the first n
GoodFiles(n) == SelectSeq(SubSeq(xml_files, 1, n), WellFormed)

ExpectedColumns == FieldNames \o <<ArquivoOrigem, DataProcessamento>>

\* the cell of a row in the column named name
Cell(frame, r, name) ==
    {Rows(frame)[r][c] : c \in {j \in 1..Len(Columns(frame)) : Columns(frame)[j] = name}}

(* C7: parse_multiple_xmls returns a table and raises nothing, whatever    *)
(* the batch; the table has one row per well-formed document (N - 1 rows   *)
(* when exactly one of N is malformed), and is the empty table when no     *)
(* document yields a record.                                               *)
C7_BatchResilience ==
    pc = "done" =>
        /\ IsFrame(df)
        /\ Len(Rows(df)) = Len(GoodFiles(Len(xml_files)))
        /\ GoodFiles(Len(xml_files)) = <<>> => df = EmptyFrame

\* three files, the first malformed, the two after it still processed
C7_Witness ==
    /\ pc = "done"
    /\ Len(xml_files) = 3
    /\ ~WellFormed(xml_files[1]) /\ WellFormed(xml_files[2]) /\ WellFormed(xml_files[3])
    /\ IsFrame(df)
    /\ Len(Rows(df)) = 2

(* C8 (as stated): for any batch, also when every document fails, the     *)
(* columns of the table are the field names followed by _arquivo_origem    *)
(* and _data_processamento.                                                *)
C8_ColumnsForAnyBatch ==
    pc = "done" => (IsFrame(df) /\ Columns(df) = ExpectedColumns)

(* C8 (amended): when at least one document yields a record the columns   *)
(* are the field names followed by _arquivo_origem and                     *)
(* _data_processamento, whatever the documents held; when none does, the   *)
(* table has no columns at all.                                            *)
C8_ColumnStability ==
    pc = "done" =>
        /\ IsFrame(df)
        /\ Columns(df) = IF GoodFiles(Len(xml_files)) # <<>> THEN ExpectedColumns ELSE <<>>
        /\ \A r \in 1..Len(Rows(df)) : Len(Rows(df)[r]) = Len(Columns(df))

\* a batch with a malformed document and documents holding different fields
C8_Witness ==
    /\ pc = "done"
    /\ \E i \in 1..Len(xml_files) : ~WellFormed(xml_files[i])
    /\ \E i, j \in 1..Len(xml_files) :
          /\ WellFormed(xml_files[i]) /\ WellFormed(xml_files[j])
          /\ xml_files[i][2] # xml_files[j][2]
    /\ IsFrame(df)
    /\ Columns(df) = ExpectedColumns

(* C9: after any prefix of the input, the records collected are those of  *)
(* the well-formed documents of the prefix, in input order, one each, and  *)
(* each carries the name of its file as _arquivo_origem; the rows of the   *)
(* table keep that order.                                                  *)
C9_RowOrderAndProvenance ==
    LET good == GoodFiles(idx - 1)
    IN  /\ Len(all_data) = Len(good)
        /\ \A n \in 1..Len(all_data) :
              /\ IsDict(all_data[n])
              /\ Stored(all_data[n][2], ArquivoOrigem) = {good[n][1]}
              /\ SubSeq(all_data[n][2], 1, Len(FieldMapping))
                    = _extract_fields_enhanced(good[n][2][2])
        /\ pc = "done" =>
              /\ Len(Rows(df)) = Len(good)
              /\ \A n \in 1..Len(Rows(df)) : Cell(df, n, ArquivoOrigem) = {good[n][1]}

\* two documents from different files around a malformed one
C9_Witness ==
    /\ pc = "loop"
    /\ idx = 4
    /\ ~WellFormed(xml_files[2])
    /\ xml_files[1][1] # xml_files[3][1]
    /\ Len(all_data) = 2
    /\ Stored(all_data[1][2], ArquivoOrigem) = {xml_files[1][1]}
    /\ Stored(all_data[2][2], ArquivoOrigem) = {xml_files[3][1]}

-----------------------------------------------------------------------------
(* Statements about the transforms *)

\* the operation called
Called(op) == pc \in {"done", "twice"} /\ args[1] = op

\* the positions in df of the rows kept in the table returned, by label
KeptPositions(frame) == [k \in 1..Len(Rows(frame)) |-> Index(frame)[k] + 1]

Increasing(at) == \A i, j \in 1..Len(at) : i < j => at[i] < at[j]

(* C16: remove_duplicates(table, subset) keeps, for each distinct tuple of *)
(* values over the subset columns (all columns without a subset), exactly  *)
(* the first row that carries it, in the order of the table; rows [A,A,B]  *)
(* give [A,B]; applied to its own result it returns that result.           *)
C16_DedupStability ==
    (Called("remove_duplicates")
       /\ (IsNone(args[2]) \/ \A k \in 1..Len(args[2][2]) : HasColumn(df, args[2][2][k]))) =>
        LET names == IF IsNone(args[2]) THEN Columns(df) ELSE args[2][2]
            tuple(r) == [k \in 1..Len(names) |-> Series(df, names[k])[r]]
            at == KeptPositions(result)
        IN  /\ IsFrame(result)
            /\ Columns(result) = Columns(df)
            /\ Increasing(at)
            /\ \A k \in 1..Len(at) : at[k] \in 1..Len(Rows(df)) /\ Rows(result)[k] = Rows(df)[at[k]]
            /\ \A r \in 1..Len(Rows(df)) :
                  (\E k \in 1..Len(at) : at[k] = r) <=> (\A q \in 1..(r - 1) : tuple(q) # tuple(r))
            /\ pc = "twice" => again = result

\* rows [A, A, B] give [A, B], once and twice
C16_Witness ==
    /\ pc = "twice"
    /\ args = <<"remove_duplicates", NoneV>>
    /\ Rows(df) = << <<Str(<<"A">>), Num(12, 0)>>, <<Str(<<"A">>), Num(12, 0)>>,
                     <<Str(<<"B">>), Num(12, 0)>> >>
    /\ Rows(result) = << <<Str(<<"A">>), Num(12, 0)>>, <<Str(<<"B">>), Num(12, 0)>> >>
    /\ Index(result) = <<0, 2>>
    /\ again = result

\* a bound that is given and can be read as a date
IsDateBound(b) == IsDate(b) \/ (IsStr(b) /\ IsIsoDateText(b[2]))
\* a bound that is not given
IsNoBound(b) == IsNone(b) \/ b = Str(EmptyText)

(* C18: filter_by_date_range(table, column, start, end) keeps exactly the  *)
(* rows whose column value, coerced to a date, d has start <= d when start *)
(* is given and d <= end when end is given, in the order of the table; a   *)
(* row whose value cannot be coerced is dropped as soon as one bound is    *)
(* given; a table without the column is returned unchanged.                *)
C18_DateRangeFilter ==
    Called("filter_by_date_range") =>
        LET column == args[2]
            start == args[3]
            end == args[4]
        IN  /\ ~HasColumn(df, column) => result = df
            /\ (/\ HasColumn(df, column)
                 /\ (IsDateBound(start) \/ IsNoBound(start))
                 /\ (IsDateBound(end) \/ IsNoBound(end))) =>
                  LET d == ToDatetimeCoerce(Series(df, column))
                      inside(r) ==
                          /\ IsDateBound(start) => (IsDate(d[r]) /\ ~DateLt(d[r], ToTimestamp(start)))
                          /\ IsDateBound(end) => (IsDate(d[r]) /\ ~DateLt(ToTimestamp(end), d[r]))
                      at == KeptPositions(result)
                  IN  /\ IsFrame(result)
                      /\ Columns(result) = Columns(df)
                      /\ Increasing(at)
                      /\ \A r \in 1..Len(Rows(df)) : (\E k \in 1..Len(at) : at[k] = r) <=> inside(r)
                      /\ \A k \in 1..Len(at) :
                            /\ Series(result, ColNome)[k] = Series(df, ColNome)[at[k]]
                            /\ Series(result, column)[k] = d[at[k]]

\* both bounds given: the row on the upper bound stays, the unreadable row
\* and the later row go
C18_Witness ==
    /\ pc = "done"
    /\ args = <<"filter_by_date_range", ColData, Str(<<"2", "0", "2", "4", "-", "0", "3", "-", "1", "5">>), Date(<<2024, 3, 15, 10, 0, 0>>)>>
    /\ Series(df, ColData) = <<Str(<<"x">>), Date(<<2024, 3, 15, 10, 0, 0>>), Date(<<2024, 3, 16, 0, 0, 0>>)>>
    /\ Index(result) = <<1>>
    /\ Series(result, ColData) = <<Date(<<2024, 3, 15, 10, 0, 0>>)>>

(* C19: filter_by_text(table, column, text, case_sensitive) keeps exactly  *)
(* the rows whose column value, as a text, contains the search text as a   *)
(* substring, letter case ignored unless case_sensitive; it keeps the      *)
(* order of the rows, and returns the table unchanged when the text is     *)
(* empty or the column is missing.                                         *)
C19_SubstringFilter ==
    (Called("filter_by_text") /\ IsStr(args[3])) =>
        LET column == args[2]
            text == args[3][2]
            fold(t) == IF args[4] THEN t ELSE Lower(t)
            at == KeptPositions(result)
        IN  IF ~HasColumn(df, column) \/ text = EmptyText THEN result = df
            ELSE /\ IsFrame(result)
                 /\ Increasing(at)
                 /\ \A r \in 1..Len(Rows(df)) :
                       (\E k \in 1..Len(at) : at[k] = r)
                           <=> Contains(fold(PyStr(Series(df, column)[r])), fold(text))

\* the cell is missing once the texts None, none and NONE count as missing
IsMissing(x) == IsNone(x) \/ (IsStr(x) /\ x[2] \in {NoneText, noneText, NONEText})

\* the column holds numbers and missing cells only, one number at least
IsNumberColumn(series) ==
    /\ \A r \in 1..Len(series) : IsNum(series[r]) \/ IsNone(series[r])
    /\ \E r \in 1..Len(series) : IsNum(series[r])

\* x is the mean of the numbers of the series
IsMeanOf(x, series) ==
    /\ IsNum(x)
    /\ x[2][1] * Pow10(2 - x[2][2]) * Cardinality({r \in 1..Len(series) : IsNum(series[r])})
          = SumOf(series, 1)

InternalError ==
    \/ /\ args[1] = "remove_duplicates"
       /\ IsList(args[2])
       /\ \E k \in 1..Len(args[2][2]) : ~HasColumn(df, args[2][2][k])
    \/ /\ args[1] = "filter_by_date_range"
       /\ HasColumn(df, args[2])
       /\ \E b \in {args[3], args[4]} : ~IsNoBound(b) /\ ~IsDateBound(b)
    \/ /\ args[1] = "filter_by_value_range"
       /\ HasColumn(df, args[2])
       /\ \E b \in {args[3], args[4]} : ~IsNone(b) /\ ~IsNum(b)
    \/ /\ args[1] = "filter_by_text"
       /\ HasColumn(df, args[2])
       /\ \/ IsNum(args[3]) /\ args[3] # Num(0, 0)
          \/ IsStr(args[3]) /\ \E j \in 1..Len(args[3][2]) : args[3][2][j] = "("

(* C17: filter_by_date_range, filter_by_value_range, filter_by_text,       *)
(* remove_duplicates and fill_missing_values always return a table and     *)
(* raise nothing; when an error occurs inside the operation the table      *)
(* returned is the input table, rows, labels and cells as they were.       *)
C17_TransformsTotal ==
    pc \in {"done", "twice"} =>
        /\ IsFrame(result)
        /\ InternalError => result = df
        /\ pc = "twice" => IsFrame(again)

\* a search text that is no pattern, on a table with a missing name
C17_Witness ==
    /\ pc = "done"
    /\ args = <<"filter_by_text", ColNome, Str(<<"(">>), FALSE>>
    /\ Series(df, ColNome) = <<Str(<<"a">>), NoneV>>
    /\ InternalError
    /\ result = df

-----------------------------------------------------------------------------
(* Further statements about the locator, the search and the record *)

\* a text, a number or a date: no map, no sequence, not None
IsScalar(x) == IsStr(x) \/ IsNum(x) \/ IsDate(x)

(* C23: get_nested_value descends one map level per segment and returns   *)
(* None when a segment is missing or the node reached is not a map; a     *)
(* value it returns is a scalar leaf found at the path, never a map or a  *)
(* sequence.                                                              *)
C23_ScalarResult ==
    pc = "done" =>
        /\ ValueAt(data, key_path) = {} => IsNone(result)
        /\ ~IsNone(result) => IsScalar(result) /\ result \in ValueAt(data, key_path)

RECURSIVE FirstMatch(_, _), FirstMatchInEntries(_, _, _)
\* the value of the first entry, in pre-order over the entries of the maps
\* in document order and over the first item only of a sequence, whose key
\* is in ks (a set with at most one element)
FirstMatchInEntries(es, i, ks) ==
    IF i > Len(es) THEN {}
    ELSE IF es[i][1] \in ks THEN {es[i][2]}
    ELSE LET below == FirstMatch(es[i][2], ks)
         IN  IF below # {} THEN below ELSE FirstMatchInEntries(es, i + 1, ks)

FirstMatch(t, ks) ==
    IF IsDict(t) THEN FirstMatchInEntries(t[2], 1, ks)
    ELSE IF IsList(t) /\ Len(t[2]) > 0 THEN FirstMatch(t[2][1], ks)
    ELSE {}

(* C24: without context the search returns the value of the first key in  *)
(* pre-order, document order, whose name is among the names searched for, *)
(* whatever the order of the names; of a sequence the first item only is  *)
(* searched, and None is returned when no key matches.                    *)
C24_FirstInDocumentOrder ==
    (pc = "done" /\ context = "") =>
        /\ FirstMatch(data, Range(keys)) = {} => IsNone(result)
        /\ \A x \in FirstMatch(data, Range(keys)) : result = x

(* C25 (as stated): a found value is stored as the number currency       *)
(* coercion returns when the field's name contains 'valor' or 'total', as  *)
(* the result of date coercion when it otherwise contains 'data', as it is *)
(* for any other field; a field with nothing found is stored as None.      *)
C25_CoercionByName ==
    pc = "done" =>
        \A i \in 1..Len(FieldMapping) :
            LET name == FieldMapping[i][1]
                raw == Resolved(xml_dict, i)
            IN  Stored(extracted_data, name) =
                    { IF ~IsFound(raw) THEN NoneV
                      ELSE IF IsCurrencyField(name) THEN safe_float(raw)
                      ELSE IF IsDateField(name) THEN parse_date(PyStr(raw))
                      ELSE raw }

(* C25 (amended): as above, but a date field whose found value date       *)
(* coercion cannot read is stored as the found value itself.               *)
C25_CoercionByNameKeepingUnreadDates ==
    pc = "done" =>
        \A i \in 1..Len(FieldMapping) :
            LET name == FieldMapping[i][1]
                raw == Resolved(xml_dict, i)
            IN  Stored(extracted_data, name) =
                    { IF ~IsFound(raw) THEN NoneV
                      ELSE IF IsCurrencyField(name) THEN safe_float(raw)
                      ELSE IF IsDateField(name) /\ ~IsNone(parse_date(PyStr(raw)))
                          THEN parse_date(PyStr(raw))
                      ELSE raw }

\* a document with a total and a date of issue and no number: a number, a
\* date and a None in the record
C25_Witness ==
    /\ pc = "done"
    /\ xml_dict = Dict(<< <<"vNF", Str(<<"1", ",", "5">>)>>,
                          <<"dhEmi", Str(<<"2", "0", "2", "4", "-", "0", "3", "-", "1", "5">>)>> >>)
    /\ IsCurrencyField(FieldMapping[7][1])
    /\ Stored(extracted_data, FieldMapping[7][1]) = {Num(15, 1)}
    /\ IsDateField(FieldMapping[2][1])
    /\ Stored(extracted_data, FieldMapping[2][1]) = {Date(<<2024, 3, 15, 0, 0, 0>>)}
    /\ Stored(extracted_data, FieldMapping[1][1]) = {NoneV}

(* C26: no value of the record is the empty text or the text "None",      *)
(* whether a candidate path or the keyword search found it.                *)
C26_RecordAbsentNormalized ==
    pc = "done" =>
        \A i \in 1..Len(extracted_data) :
            extracted_data[i][2] \notin {Str(EmptyText), Str(NoneText)}

-----------------------------------------------------------------------------
(* Statements about the archives *)

\* a member that is a file, XML by its name, and whose file name, the last
\* part of its path, does not start with a dot
IsLeafXml(filename) ==
    /\ ~IsDirEntry(filename)
    /\ EndsWith(Lower(filename), DotXml)
    /\ ~StartsWith(PathName(filename), <<".">>)

(* C21: _extract_zip yields one (name, bytes) pair per leaf XML member, in *)
(* archive order, and nothing for a directory entry, a member that is no   *)
(* XML or a hidden file, whose file name starts with '.', at any depth; a  *)
(* corrupt archive yields the empty list and nothing is raised.            *)
C21_ArchiveExtraction ==
    (pc = "done" /\ args[1] = "_extract_zip") =>
        LET zip_content == args[2]
            leaves == IF zip_content[1] = "bad" THEN <<>>
                      ELSE SelectSeq(zip_content[2], LAMBDA m : IsLeafXml(m[1]))
        IN  /\ IsList(result)
            /\ (zip_content[1] = "bad" \/ \E i \in 1..Len(zip_content[2]) : ~zip_content[2][i][3])
                    => result[2] = <<>>
            /\ (zip_content[1] = "zip" /\ \A i \in 1..Len(zip_content[2]) : zip_content[2][i][3])
                    => result[2] = [i \in 1..Len(leaves) |->
                                        <<Str(PathName(leaves[i][1])), leaves[i][2]>>]

-----------------------------------------------------------------------------
(* Statements about null cells in a text search *)

(* C29: for a column of the table and a search text that is not empty,    *)
(* filter_by_text keeps no row whose cell in the column is null, and the    *)
(* rows it returns hold the cells of the rows of the table they come from. *)
C29_NullNeverMatches ==
    (Called("filter_by_text") /\ IsStr(args[3]) /\ args[3][2] # EmptyText
       /\ HasColumn(df, args[2])) =>
        LET at == KeptPositions(result)
        IN  /\ IsFrame(result)
            /\ \A k \in 1..Len(at) :
                  /\ ~IsNone(Series(df, args[2])[at[k]])
                  /\ Rows(result)[k] = Rows(df)[at[k]]

-----------------------------------------------------------------------------
(* Statements about a run of process_files and the download *)

\* a run of process_files has ended
Ran == pc \in {"done", "exported", "session"} /\ args # <<>> /\ args[1] = "process_files"

\* the run reached line 473: files were found and the table parsed from
\* them has a row (each selection is of columns of that table)
Succeeded == IsFrame(df) /\ Rows(df) # <<>>

(* C22: the table parse_multiple_xmls returns has a column for every field *)
(* of the field mapping whatever fields are selected; process_files keeps  *)
(* the selected fields and the provenance columns; the table given to the  *)
(* exporter has exactly the selected fields of the table, in their order,  *)
(* with the cells of the table of the session, and no column whose name    *)
(* starts with '_'.                                                        *)
C22_PostHocSelection ==
    (Ran /\ pc # "session" /\ Succeeded) =>
        /\ Columns(df) = ExpectedColumns
        /\ processing_complete
        /\ Columns(df_processed) = args[3] \o <<ArquivoOrigem, DataProcessamento>>
        /\ pc = "exported" =>
              /\ Columns(result) = args[3]
              /\ \A c \in 1..Len(Columns(result)) : ~StartsWith(Columns(result)[c], <<"_">>)
              /\ Len(Rows(result)) = Len(Rows(df_processed))
              /\ \A r \in 1..Len(Rows(result)) :
                    Rows(result)[r] = SubSeq(Rows(df_processed)[r], 1, Len(args[3]))

\* two documents, one field selected: a table of three columns in the
\* session and a table of one column for the exporter
C22_Witness ==
    /\ pc = "exported"
    /\ args[2] = <<<<NameA, DocFull>>, <<NameB, DocUnreadDate>>>>
    /\ args[3] = <<FieldNames[1]>>
    /\ Len(Columns(df_processed)) = 3
    /\ Columns(result) = <<FieldNames[1]>>
    /\ Rows(result) = << <<Str(<<"7">>)>>, <<Str(<<"8">>)>> >>

(* C30: with remove_duplicates set, process_files drops a row exactly when *)
(* an earlier row agrees with it on every selected field and on            *)
(* _arquivo_origem and _data_processamento: documents with the same field  *)
(* values and different file names all stay, and of identical documents    *)
(* with the same file name the first one only.                             *)
C30_DedupComparesProvenance ==
    (Ran /\ pc # "session" /\ Succeeded /\ args[4]) =>
        LET compared == Rows(SelectColumns(ReplaceAllNones(df), Columns(df_processed)))
            at == KeptPositions(df_processed)
        IN  /\ Increasing(at)
            /\ \A r \in 1..Len(compared) :
                  (\E k \in 1..Len(at) : at[k] = r)
                      <=> ~\E q \in 1..(r - 1) : compared[q] = compared[r]

-----------------------------------------------------------------------------
(* Statements about the session over several runs of process_files *)

C28_FailedRunKeepsResult ==
    (Ran /\ pc = "session" /\ ~Succeeded) =>
        LET found == process_uploads(args[2])
        IN  /\ df_processed = again[2]
            /\ processing_complete = again[3]
            /\ xml_files = (IF found = <<>> THEN again[1] ELSE found)

\* a run on a file that cannot be read after a run that went well: the
\* table of the first run is kept and xml_files holds the unreadable file
C28_Witness ==
    /\ pc = "session" /\ idx = 2
    /\ args[2] = <<<<NameA, DocBad>>>>
    /\ again[3] /\ IsFrame(again[2])
    /\ ~Succeeded
    /\ processing_complete /\ df_processed = again[2]
    /\ xml_files = <<<<NameA, DocBad>>>>
    /\ xml_files # again[1]

=============================================================================
